---- MODULE Spec2Model ----
(***************************************************************************)
(* Trace capture lifecycle of chrome-devtools-mcp:                         *)
(*   src/src/tools/performance.ts  (performance_start_trace,               *)
(*                                  performance_stop_trace,                *)
(*                                  stopTracingAndAppendOutput)            *)
(*   src/unnamed/part_000          (trace-processing/parse.ts:             *)
(*                                  parseRawTraceBuffer and friends)       *)
(*                                                                         *)
(* Every tool handler is an async function.  A handler runs without        *)
(* interruption from one await to the next, so the model has one action    *)
(* per synchronous segment: the action that resumes a handler after an     *)
(* awaited call settles takes the outcome of that call (it returned or it  *)
(* threw), applies its effect, and runs the code up to the next await.     *)
(* Handlers of different tool calls interleave at their awaits.            *)
(***************************************************************************)
EXTENDS Integers, Sequences, FiniteSets, TLC

\* Number of tool calls issued in one run of the model.
MaxCalls == 3

Calls == 1..MaxCalls

\* filePathSchema (optional string): absent, a path not ending in '.gz',
\* a path ending in '.gz'.
FilePaths == {"none", "trace.json", "trace.json.gz"}

\* An optional value: absent (null or undefined), or present.
None == [defined |-> FALSE]
Some(v) == [defined |-> TRUE, value |-> v]

\* The arguments of a tool call are drawn when the handler first reads them;
\* until then, and once the handler has returned, the file path is Unread
\* and the booleans are absent.
Unread == "unread"

Request(tool) == [tool |-> tool, reload |-> None, autoStop |-> None, filePath |-> Unread]

NoRequest == Request("none")

\* What page.tracing.stop() can resolve to: undefined, or bytes that decode to
\* the empty string, to text that is not JSON, to the JSON null, to a JSON
\* object without traceEvents, to a bare array of events, or to an object
\* with a traceEvents array.
NoBuffer == "none"
TraceBuffers ==
  {"undefined", "empty", "malformed", "null", "objectNoEvents", "array", "object"}

\* Lines of the tool response.
LineAlreadyRunning == "Error: a performance trace is already running."
LineBeingRecorded == "The performance trace is being recorded."
LineSaved == "The raw trace data was saved to file."
LineStopped == "The performance trace has been stopped."
LineSummary == "## Summary of Performance trace findings:"
LineParseError == "There was an unexpected error parsing the trace:"
LineResponseError == "An error occurred generating the response for this trace:"
LineErrorText == "errorText"

LineNoRecordedTraces == "No recorded traces found."
LineLcpHint == "To see a detailed visual breakdown, call performance_show_lcp_breakdown."
LineNoLcpData == "No LCP data found in the current recording."
LineLcpOpened == "LCP Breakdown UI opened."
LineJsonFence == "(json fence opens)"
LineLcpData == "{lcpData: {lcpMs, backendNodeId, phases}}"
LineLcpDataWithScreenshot == "{lcpData: {lcpMs, backendNodeId, phases, screenshot}}"
LineFence == "(json fence closes)"
LineInsightOutput == "formatter.formatInsight()"

\* Error messages of parseRawTraceBuffer.
ErrNoBuffer == "No buffer was provided."
ErrEmptyString == "Decoding the trace buffer returned an empty string."
ErrNoParsedTrace == "No parsed trace was returned from the trace engine."
ErrCaught == "errorText"

\* Error messages of getInsightOutput.
ErrNoInsights == "No Performance insights are available for this trace."
ErrNoInsightSet == "No Performance Insights for the given insight set id."
ErrNoInsight(insightName) ==
  CASE insightName = "LCPBreakdown" -> "No Insight with the name LCPBreakdown found."
    [] insightName = "DocumentLatency" -> "No Insight with the name DocumentLatency found."
    [] OTHER -> "No Insight with the name found."

\* Where the code tells undefined from null, None is null and this is
\* undefined.
Undefined == [defined |-> FALSE, undefined |-> TRUE]

VARIABLES
  request,                    \* request[h]: tool call h and the arguments read so far
  pc,                         \* pc[h]: the await the handler of h is suspended at
  isRunningPerformanceTrace,  \* the context's recording flag
  recordedTraces,             \* the context's history of stored TraceResults
  browserTracing,             \* the page is recording a trace
  tracingSession,             \* who began the page's latest recording, and the calls of
                              \* page.tracing.stop() made since it began
  pageUrl,                    \* the URL the selected page shows
  pageUrlForTracing,          \* pageUrlForTracing[h]: the URL a start handler captured
  response,                   \* response[h]: the lines appended to the response of h
  traceEventsBuffer,          \* traceEventsBuffer[h]: what page.tracing.stop() returned
  result,                     \* result[h]: how parseRawTraceBuffer settled for h
  engineParsing,              \* handlers whose engine.parse(events) is in flight
  engineCalls,                \* engineCalls[h]: the engine methods parseRawTraceBuffer
                              \* has called for h, in order
  lcpData,                    \* lcpData[h]: the LCP breakdown a show handler computed
  applied,                    \* the function of part_000 applied on its own, with
                              \* its arguments
  returned,                   \* what that application returned
  emulation                   \* the emulation settings the context holds, those the
                              \* page calls that returned have applied, and the
                              \* emulate_set_parameters calls

vars ==
  <<pc, request, isRunningPerformanceTrace, recordedTraces, browserTracing, tracingSession,
    pageUrl,
    pageUrlForTracing, response, traceEventsBuffer, result, engineParsing, engineCalls,
    lcpData, applied, returned, emulation>>

MaxEmulations == 2

\* emulation.ts 42-85: no emulate_set_parameters call has been made: the
\* context holds no setting and the page has been given none.
NoEmulation ==
  [context |-> [networkConditions |-> None, cpuThrottlingRate |-> None, geolocation |-> None],
   page |-> [networkConditions |-> Undefined, cpuThrottlingRate |-> Undefined,
             geolocation |-> Undefined],
   params |-> [h \in 1..MaxEmulations |-> None],
   pc |-> [h \in 1..MaxEmulations |-> "idle"],
   response |-> [h \in 1..MaxEmulations |-> <<>>]]

\* No function has been applied on its own.
NotApplied == [fn |-> "none"]

NoResult == [pending |-> TRUE]
Rejected == [threw |-> TRUE]
NoUrl == "none"

Upd(f, h, v) == [f EXCEPT ![h] = v]

Init ==
  /\ request = [h \in Calls |-> NoRequest]
  /\ pc = [h \in Calls |-> "idle"]
  /\ isRunningPerformanceTrace = FALSE
  /\ recordedTraces = <<>>
  /\ browserTracing = FALSE
  /\ tracingSession = [startedBy |-> 0, stopCalls |-> 0]
  /\ pageUrl = "https://example.test/"
  /\ pageUrlForTracing = [h \in Calls |-> NoUrl]
  /\ response = [h \in Calls |-> <<>>]
  /\ traceEventsBuffer = [h \in Calls |-> NoBuffer]
  /\ result = [h \in Calls |-> NoResult]
  /\ engineParsing = {}
  /\ engineCalls = [h \in Calls |-> <<>>]
  /\ lcpData = [h \in Calls |-> None]
  /\ applied = NotApplied
  /\ returned = NotApplied
  /\ emulation = NoEmulation

\* Tool calls are issued one after the other: h is the next call not yet issued.
IsNextCall(h) ==
  /\ pc[h] = "idle"
  /\ \A g \in Calls : g < h => pc[g] # "idle"

\* The handler of tool call h returns (how = "done") or throws (how =
\* "thrown"): its arguments and locals are gone.
HandlerEnds(h, tool, how) ==
  /\ pc' = Upd(pc, h, how)
  /\ request' = Upd(request, h, Request(tool))
  /\ pageUrlForTracing' = Upd(pageUrlForTracing, h, NoUrl)
  /\ traceEventsBuffer' = Upd(traceEventsBuffer, h, NoBuffer)
  /\ result' = Upd(result, h, NoResult)
  /\ engineCalls' = Upd(engineCalls, h, <<>>)
  /\ lcpData' = Upd(lcpData, h, None)

(***************************************************************************)
(* performance_start_trace                                                 *)
(***************************************************************************)

\* A rejected start that would clear the flag: StartWhileRunningIsRejected
\* tells it from the handler's.
StartRejectedClearsFlag(h) ==
  /\ response' = Upd(response, h, Append(response[h], LineAlreadyRunning))
  /\ HandlerEnds(h, "performance_start_trace", "done")
  /\ isRunningPerformanceTrace' = FALSE
  /\ UNCHANGED <<recordedTraces, browserTracing, tracingSession, pageUrl, engineParsing>>

\* performance.ts 54-59: a trace is already running.
StartRejected(h) ==
  /\ response' = Upd(response, h, Append(response[h], LineAlreadyRunning))
  /\ HandlerEnds(h, "performance_start_trace", "done")
  /\ UNCHANGED <<isRunningPerformanceTrace, recordedTraces, browserTracing, tracingSession,
                 pageUrl,
                 engineParsing>>

\* A start that would navigate to about:blank whether or not reload is set:
\* StartStepsInOrder tells it from the handler's.
StartAcceptedAlwaysBlank(h, reload) ==
  /\ isRunningPerformanceTrace' = TRUE
  /\ request' =
       Upd(request, h, [Request("performance_start_trace") EXCEPT !.reload = Some(reload)])
  /\ pageUrlForTracing' = Upd(pageUrlForTracing, h, pageUrl)
  /\ pc' = Upd(pc, h, "await_goto_blank")
  /\ UNCHANGED <<recordedTraces, browserTracing, tracingSession,
                 pageUrl, response, traceEventsBuffer,
                 result, engineParsing, engineCalls, lcpData>>

\* performance.ts 60-70, 93: the flag is set, the URL captured, and the first
\* collaborator call is made and awaited (page.goto('about:blank') when
\* reloading, page.tracing.start otherwise).
StartAccepted(h, reload) ==
  /\ isRunningPerformanceTrace' = TRUE
  /\ request' = Upd(request, h, [Request("performance_start_trace") EXCEPT !.reload = Some(reload)])
  /\ pageUrlForTracing' = Upd(pageUrlForTracing, h, pageUrl)
  /\ pc' = Upd(pc, h, IF reload THEN "await_goto_blank" ELSE "await_tracing_start")
  /\ UNCHANGED <<recordedTraces, browserTracing, tracingSession,
                 pageUrl, response, traceEventsBuffer,
                 result, engineParsing, engineCalls, lcpData>>

\* performance.ts 53-60: the handler is entered.
StartTrace(h) ==
  /\ IsNextCall(h)
  /\ UNCHANGED <<applied, returned, emulation>>
  /\ IF isRunningPerformanceTrace
       THEN StartRejected(h)
       ELSE \E reload \in BOOLEAN : StartAccepted(h, reload)

\* An awaited call of the start handler rejects: the handler has no try block,
\* the exception leaves it and nothing else is done.
StartHandlerThrows(h) ==
  /\ HandlerEnds(h, "performance_start_trace", "thrown")
  /\ UNCHANGED <<isRunningPerformanceTrace, recordedTraces, response, engineParsing>>

\* performance.ts 67-69, 93: page.goto('about:blank') settles.
ResumeGotoBlank(h) ==
  /\ pc[h] = "await_goto_blank"
  /\ UNCHANGED <<applied, returned, emulation>>
  /\ UNCHANGED <<browserTracing, tracingSession>>
  /\ \/ /\ pageUrl' = "about:blank"
        /\ pc' = Upd(pc, h, "await_tracing_start")
        /\ UNCHANGED <<request, isRunningPerformanceTrace, recordedTraces,
                       pageUrlForTracing, response, traceEventsBuffer, result,
                       engineParsing, engineCalls, lcpData>>
     \/ /\ UNCHANGED pageUrl
        /\ StartHandlerThrows(h)

\* performance.ts 103-115: autoStop waits for the 5 s timer, otherwise the
\* handler reports that the trace is being recorded and returns.
StartAutoStopOrReturn(h) ==
  /\ \E autoStop \in BOOLEAN :
       IF autoStop
         THEN /\ pc' = Upd(pc, h, "await_timer")
              /\ request' = Upd(request, h, [request[h] EXCEPT !.autoStop = Some(TRUE)])
              /\ UNCHANGED <<response, pageUrlForTracing, traceEventsBuffer, result,
                             engineCalls, lcpData>>
         ELSE /\ response' = Upd(response, h, Append(response[h], LineBeingRecorded))
              /\ HandlerEnds(h, "performance_start_trace", "done")
  /\ UNCHANGED <<isRunningPerformanceTrace, recordedTraces, engineParsing>>

\* performance.ts 93-101: page.tracing.start settles.  It rejects on a page
\* that is already recording.
ResumeTracingStart(h) ==
  /\ pc[h] = "await_tracing_start"
  /\ UNCHANGED <<applied, returned, emulation>>
  /\ UNCHANGED pageUrl
  /\ \/ /\ ~browserTracing
        /\ browserTracing' = TRUE
        /\ tracingSession' = [startedBy |-> h, stopCalls |-> 0]
        /\ IF request[h].reload.value
             THEN /\ pc' = Upd(pc, h, "await_goto_url")
                  /\ UNCHANGED <<request, isRunningPerformanceTrace, recordedTraces,
                                 pageUrlForTracing, response, traceEventsBuffer, result,
                                 engineParsing, engineCalls, lcpData>>
             ELSE StartAutoStopOrReturn(h)
     \/ /\ UNCHANGED <<browserTracing, tracingSession>>
        /\ StartHandlerThrows(h)

\* performance.ts 98-100: page.goto(pageUrlForTracing) settles.
ResumeGotoUrl(h) ==
  /\ pc[h] = "await_goto_url"
  /\ UNCHANGED <<applied, returned, emulation>>
  /\ UNCHANGED <<browserTracing, tracingSession>>
  /\ \/ /\ pageUrl' = pageUrlForTracing[h]
        /\ StartAutoStopOrReturn(h)
     \/ /\ UNCHANGED pageUrl
        /\ StartHandlerThrows(h)

(***************************************************************************)
(* parseRawTraceBuffer (src/unnamed/part_000)                              *)
(***************************************************************************)

\* part_000 17-21
traceResultIsSuccess(x) == "parsedTrace" \in DOMAIN x

IsParseError(x) == "error" \in DOMAIN x

(***************************************************************************)
(* The trace buffer: bytes, text, JSON                                     *)
(***************************************************************************)

\* The characters trace texts are written with here, each with its UTF-8
\* byte.
Utf8Table ==
  << <<"[", 91>>, <<"]", 93>>, <<"{", 123>>, <<"}", 125>>, <<":", 58>>, <<",", 44>>,
     <<"\"", 34>>, <<"1", 49>>, <<"2", 50>>, <<"t", 116>>, <<"r", 114>>, <<"a", 97>>,
     <<"c", 99>>, <<"e", 101>>, <<"E", 69>>, <<"v", 118>>, <<"n", 110>>, <<"s", 115>>,
     <<"u", 117>>, <<"l", 108>>, <<"x", 120>> >>

\* U+FFFD, which TextDecoder puts for a byte that is no character.
ReplacementChar == "?"

\* The byte of one character.
Utf8Byte(ch) == Utf8Table[CHOOSE k \in DOMAIN Utf8Table : Utf8Table[k][1] = ch][2]

\* The character of one byte.
Utf8Char(byte) ==
  IF \E k \in DOMAIN Utf8Table : Utf8Table[k][2] = byte
    THEN Utf8Table[CHOOSE k \in DOMAIN Utf8Table : Utf8Table[k][2] = byte][1]
    ELSE ReplacementChar

\* The bytes a text is written to the buffer as.
TextEncode(text) == [i \in DOMAIN text |-> Utf8Byte(text[i])]

\* part_000 36: new TextDecoder().decode(buffer)
TextDecode(buffer) == [i \in DOMAIN buffer |-> Utf8Char(buffer[i])]

Digits == {"1", "2"}
Letters == {"t", "r", "a", "c", "e", "E", "v", "n", "s", "u", "l", "x"}

\* The number a digit is the numeral of.
DigitValue(ch) == IF ch = "1" THEN 1 ELSE 2

\* JSON values.
JsonNull == [type |-> "null"]
JsonNumber(n) == [type |-> "number", value |-> n]
JsonArray(items) == [type |-> "array", items |-> items]
JsonObject(members) == [type |-> "object", members |-> members]

\* The outcome of reading one JSON construct: it is not there, or it is v
\* and the text goes on at character next.
NoParse == [ok |-> FALSE]
Parsed(v, next) == [ok |-> TRUE, value |-> v, next |-> next]

\* The character at i, or the empty string past the end of the text.
CharAt(text, i) == IF i \in DOMAIN text THEN text[i] ELSE ""

\* A JSON string starting at character i: a quote, letters, a quote.
JsonStringAt(text, i) ==
  IF CharAt(text, i) # "\""
    THEN NoParse
    ELSE LET closing == {j \in DOMAIN text : j > i /\ text[j] = "\""}
         IN  IF closing = {}
               THEN NoParse
               ELSE LET j == CHOOSE k \in closing : \A m \in closing : k <= m
                    IN  IF \A k \in (i + 1)..(j - 1) : text[k] \in Letters
                          THEN Parsed(SubSeq(text, i + 1, j - 1), j + 1)
                          ELSE NoParse

\* JSON.parse, by recursive descent: the value at character i; the items
\* of an array after its '[' or after a ','; the members of an object after
\* its '{' or after a ','.
RECURSIVE JsonValueAt(_, _), JsonItemsAt(_, _, _), JsonMembersAt(_, _, _)
JsonValueAt(text, i) ==
  IF CharAt(text, i) = "["
    THEN JsonItemsAt(text, i + 1, <<>>)
  ELSE IF CharAt(text, i) = "{"
    THEN JsonMembersAt(text, i + 1, <<>>)
  ELSE IF CharAt(text, i) \in Digits
    THEN Parsed(JsonNumber(DigitValue(text[i])), i + 1)
  ELSE IF i + 3 <= Len(text) /\ SubSeq(text, i, i + 3) = <<"n", "u", "l", "l">>
    THEN Parsed(JsonNull, i + 4)
  ELSE NoParse

JsonItemsAt(text, i, items) ==
  IF items = <<>> /\ CharAt(text, i) = "]"
    THEN Parsed(JsonArray(<<>>), i + 1)
    ELSE LET item == JsonValueAt(text, i)
         IN  IF ~item.ok
               THEN NoParse
             ELSE IF CharAt(text, item.next) = ","
               THEN JsonItemsAt(text, item.next + 1, Append(items, item.value))
             ELSE IF CharAt(text, item.next) = "]"
               THEN Parsed(JsonArray(Append(items, item.value)), item.next + 1)
             ELSE NoParse

JsonMembersAt(text, i, members) ==
  IF members = <<>> /\ CharAt(text, i) = "}"
    THEN Parsed(JsonObject(<<>>), i + 1)
    ELSE LET key == JsonStringAt(text, i)
         IN  IF ~key.ok \/ CharAt(text, key.next) # ":"
               THEN NoParse
               ELSE LET member == JsonValueAt(text, key.next + 1)
                        all == Append(members, [key |-> key.value, value |-> member.value])
                    IN  IF ~member.ok
                          THEN NoParse
                        ELSE IF CharAt(text, member.next) = ","
                          THEN JsonMembersAt(text, member.next + 1, all)
                        ELSE IF CharAt(text, member.next) = "}"
                          THEN Parsed(JsonObject(all), member.next + 1)
                        ELSE NoParse

\* part_000 43: JSON.parse(asString) returns the value the whole text is, or
\* throws a SyntaxError.
JSONparse(text) ==
  LET whole == JsonValueAt(text, 1)
  IN  IF whole.ok /\ whole.next = Len(text) + 1
        THEN [value |-> whole.value]
        ELSE [threw |-> TRUE]

\* The property key of a JSON value: of an object, the value of its last
\* member of that name; undefined when there is none, and for a number or
\* an array.
JsonProperty(data, key) ==
  IF data.type = "object" /\ \E k \in DOMAIN data.members : data.members[k].key = key
    THEN LET last == CHOOSE k \in DOMAIN data.members :
                       /\ data.members[k].key = key
                       /\ \A m \in DOMAIN data.members :
                            data.members[m].key = key => m <= k
         IN  data.members[last].value
    ELSE Undefined

KeyTraceEvents == <<"t", "r", "a", "c", "e", "E", "v", "e", "n", "t", "s">>

\* An event list read from traceEvents only: WireShapesAreEquivalent tells
\* it from the one of part_000.
EventsOfTraceEventsOnly(data) ==
  IF data.type = "null"
    THEN [threw |-> TRUE]
    ELSE [events |-> JsonProperty(data, KeyTraceEvents)]

\* part_000 49: Array.isArray(data) ? data : data.traceEvents.  Reading a
\* property of null throws a TypeError.
EventsOf(data) ==
  IF data.type = "array"
    THEN [events |-> data]
  ELSE IF data.type = "null"
    THEN [threw |-> TRUE]
  ELSE [events |-> JsonProperty(data, KeyTraceEvents)]

\* part_000 43-49: the event list of a trace text, or the exception.
EventsOfText(text) ==
  LET data == JSONparse(text)
  IN  IF "threw" \in DOMAIN data THEN data ELSE EventsOf(data.value)

\* The numeral of an event (events are written as the numbers 1 and 2).
Numeral(n) == IF n = 1 THEN "1" ELSE "2"

\* The items of a JSON array text for the events from the i-th on.
RECURSIVE ItemsText(_, _)
ItemsText(events, i) ==
  IF i > Len(events)
    THEN <<>>
    ELSE (IF i > 1 THEN <<",">> ELSE <<>>) \o <<Numeral(events[i])>> \o ItemsText(events, i + 1)

\* The two wire shapes of part_000 43-47: the text of the bare array of the
\* events, and the text of an object whose traceEvents is that array.
BareArrayText(events) == <<"[">> \o ItemsText(events, 1) \o <<"]">>
WrappedText(events) ==
  <<"{", "\"">> \o KeyTraceEvents \o <<"\"", ":">> \o BareArrayText(events) \o <<"}">>

\* The bytes of each kind of buffer of TraceBuffers.
SampleBuffer(buf) ==
  CASE buf = "empty" -> <<>>
    [] buf = "malformed" -> TextEncode(<<"[", "1">>)
    [] buf = "null" -> TextEncode(<<"n", "u", "l", "l">>)
    [] buf = "objectNoEvents" -> TextEncode(<<"{", "\"", "x", "\"", ":", "1", "}">>)
    [] buf = "array" -> TextEncode(BareArrayText(<<1, 2>>))
    [] buf = "object" -> TextEncode(WrappedText(<<1, 2>>))

\* part_000 36-37: new TextDecoder().decode(buffer) is the empty string.
DecodesToEmptyString(buf) == TextDecode(SampleBuffer(buf)) = <<>>

\* part_000 43-49: JSON.parse(asString) and the choice of the event list.
\* JSON.parse throws on text that is not JSON; reading .traceEvents of the
\* JSON null throws a TypeError; an object without traceEvents yields
\* undefined for the event list.
DecodeEvents(buf) == EventsOfText(TextDecode(SampleBuffer(buf)))

\* part_000 30: engine.resetProcessor() threw.  It is called outside the try
\* block, so the promise of parseRawTraceBuffer rejects.
ParseResetThrows(h) ==
  /\ engineCalls' = Upd(engineCalls, h, <<"resetProcessor">>)
  /\ result' = Upd(result, h, Rejected)
  /\ pc' = Upd(pc, h, "await_parseRawTraceBuffer")
  /\ UNCHANGED engineParsing

\* part_000 31-41, 64-70: parseRawTraceBuffer returns the error value v
\* without calling engine.parse.
ParseReturnsError(h, v) ==
  /\ engineCalls' = Upd(engineCalls, h, <<"resetProcessor">>)
  /\ result' = Upd(result, h, v)
  /\ pc' = Upd(pc, h, "await_parseRawTraceBuffer")
  /\ UNCHANGED engineParsing

\* A parse that would skip engine.resetProcessor(): ResetPrecedesParse
\* tells it from the one of part_000.
ParseWithoutReset(h) ==
  /\ engineCalls' = Upd(engineCalls, h, <<"parse">>)
  /\ engineParsing' = engineParsing \cup {h}
  /\ pc' = Upd(pc, h, "await_engine_parse")
  /\ UNCHANGED result

\* part_000 50: engine.parse(events) is called and its completion awaited.
ParseCallsEngine(h) ==
  /\ engineCalls' = Upd(engineCalls, h, <<"resetProcessor", "parse">>)
  /\ engineParsing' = engineParsing \cup {h}
  /\ pc' = Upd(pc, h, "await_engine_parse")
  /\ UNCHANGED result

\* part_000 31-50 after engine.resetProcessor() returned: the buffer checks,
\* the decoding, and the call of engine.parse(events).
ParseAfterReset(h, buf) ==
  IF buf = "undefined" THEN ParseReturnsError(h, [error |-> ErrNoBuffer])
  ELSE IF DecodesToEmptyString(buf) THEN ParseReturnsError(h, [error |-> ErrEmptyString])
  ELSE IF "threw" \in DOMAIN DecodeEvents(buf) THEN ParseReturnsError(h, [error |-> ErrCaught])
  ELSE ParseCallsEngine(h)

\* part_000 27-50: parseRawTraceBuffer(buffer) up to its first await (or its
\* return).
parseRawTraceBuffer(h, buf) ==
  /\ traceEventsBuffer' = Upd(traceEventsBuffer, h, buf)
  /\ \/ ParseResetThrows(h)
     \/ ParseAfterReset(h, buf)

\* The insight sets of a parsed trace, a Map in insertion order: one
\* navigation whose LCPBreakdown insight has an LCP of 120 ms on DOM node 4.
SampleInsightSets ==
  << [id |-> "NAVIGATION_0",
      model |-> [LCPBreakdown |->
                   Some([lcpMs |-> Some(120),
                         nodeId |-> Some(4),
                         subparts |-> Some([ttfb |-> 50000, loadDelay |-> 20000])])]] >>

\* What engine.parsedTrace() can return: nothing, or a parsed trace with or
\* without insight sets.  part_000 51-63.
ParsedTraces == {"null", "traceWithoutInsights", "traceWithInsights"}

\* A read that would always take the default: LcpMsDefaultsToZero tells it
\* from NullishOr.
AlwaysDefault(x, d) == d

\* x ?? d
NullishOr(x, d) == IF x.defined THEN x ELSE d

\* A bundle that would copy the insights without the ?? null default:
\* ParsedTraceIsBundled tells it from TraceResultOf.
TraceResultWithoutDefault(parsedTrace) ==
  IF ~parsedTrace.defined
    THEN [error |-> ErrNoParsedTrace]
    ELSE [parsedTrace |-> parsedTrace.value.trace,
          insights |-> parsedTrace.value.insights]

\* part_000 51-63: the value parseRawTraceBuffer returns for what
\* engine.parsedTrace() returned.
TraceResultOf(parsedTrace) ==
  IF ~parsedTrace.defined
    THEN [error |-> ErrNoParsedTrace]
    ELSE [parsedTrace |-> parsedTrace.value.trace,
          insights |-> NullishOr(parsedTrace.value.insights, None)]

\* The parsed trace of each kind of ParsedTraces, for tool call h.
EngineParsedTrace(h, parsedTrace) ==
  CASE parsedTrace = "null" -> None
    [] parsedTrace = "traceWithoutInsights" -> Some([trace |-> h, insights |-> None])
    [] parsedTrace = "traceWithInsights" ->
         Some([trace |-> h, insights |-> Some(SampleInsightSets)])

\* part_000 51-63: the value parseRawTraceBuffer returns for a parsed trace.
ParseValue(h, parsedTrace) == TraceResultOf(EngineParsedTrace(h, parsedTrace))

\* part_000 27-71 as a function of the buffer and of what the engine does:
\* how parseRawTraceBuffer settles, and the event list it passed to
\* engine.parse, if it got that far.
ParseSettles(buffer, engine) ==
  IF engine.reset = "throws"
    THEN [result |-> Rejected, passed |-> None]
  ELSE IF ~buffer.defined
    THEN [result |-> [error |-> ErrNoBuffer], passed |-> None]
  ELSE IF TextDecode(buffer.value) = <<>>
    THEN [result |-> [error |-> ErrEmptyString], passed |-> None]
  ELSE LET decoded == EventsOfText(TextDecode(buffer.value))
       IN  IF "threw" \in DOMAIN decoded
             THEN [result |-> [error |-> ErrCaught], passed |-> None]
           ELSE IF engine.parse = "rejects"
             THEN [result |-> [error |-> ErrCaught], passed |-> Some(decoded.events)]
           ELSE [result |-> TraceResultOf(engine.parsedTrace),
                 passed |-> Some(decoded.events)]

\* part_000 50-70: engine.parse(events) settles inside parseRawTraceBuffer.
\* A rejection is caught and becomes an error value.
ResumeEngineParse(h) ==
  /\ pc[h] = "await_engine_parse"
  /\ UNCHANGED <<applied, returned, emulation>>
  /\ engineParsing' = engineParsing \ {h}
  /\ pc' = Upd(pc, h, "await_parseRawTraceBuffer")
  /\ UNCHANGED <<request, isRunningPerformanceTrace, recordedTraces, browserTracing, tracingSession,
                 
                 pageUrl, pageUrlForTracing, response, traceEventsBuffer, lcpData>>
  /\ \/ /\ result' = Upd(result, h, [error |-> ErrCaught])
        /\ UNCHANGED engineCalls
     \/ \E parsedTrace \in ParsedTraces :
          /\ result' = Upd(result, h, ParseValue(h, parsedTrace))
          /\ engineCalls' = Upd(engineCalls, h, Append(engineCalls[h], "parsedTrace"))

(***************************************************************************)
(* Insight lookups (src/unnamed/part_000) and the accessibility tree search*)
(***************************************************************************)

\* A lookup that would fall back on the first set: NullForMissingLcp tells
\* it from Map.prototype.get.
FirstSetOf(sets, insightSetId) == IF sets = <<>> THEN None ELSE Some(sets[1])

\* Map.prototype.get on insight sets kept in insertion order.
InsightSetOf(sets, insightSetId) ==
  IF \E i \in DOMAIN sets : sets[i].id = insightSetId
    THEN Some(sets[CHOOSE i \in DOMAIN sets : sets[i].id = insightSetId])
    ELSE None

\* Property names every object inherits from Object.prototype (two of
\* them), and the value read under such a name.
ObjectPrototypeKeys == {"constructor", "toString"}
InheritedFunction == "function of Object.prototype"

\* key in object, were it to see own properties only: InsightLookupOrder
\* holds of it.
HasOwnProperty(object, key) == key \in DOMAIN object

\* key in object: own and inherited properties.
HasProperty(object, key) == key \in DOMAIN object \/ key \in ObjectPrototypeKeys

\* object[key]
GetProperty(object, key) ==
  IF key \in DOMAIN object THEN object[key]
  ELSE IF key \in ObjectPrototypeKeys THEN Some(InheritedFunction)
  ELSE Undefined

\* part_000 94-126
getInsightOutput(r, insightSetId, insightName) ==
  IF ~r.insights.defined
    THEN [error |-> ErrNoInsights]
    ELSE LET insightSet == InsightSetOf(r.insights.value, insightSetId)
         IN  IF ~insightSet.defined
               THEN [error |-> ErrNoInsightSet]
               ELSE LET model == insightSet.value.model
                        matchingInsight ==
                          IF HasProperty(model, insightName)
                            THEN GetProperty(model, insightName)
                            ELSE None
                    IN  IF ~matchingInsight.defined
                          THEN [error |-> ErrNoInsight(insightName)]
                          ELSE [output |-> LineInsightOutput]

\* part_000 167-178: the subparts in the order they are tested.
SubpartOrder == <<"ttfb", "loadDelay", "loadDuration", "renderDelay">>

PhaseName(subpart) ==
  CASE subpart = "ttfb" -> "TTFB"
    [] subpart = "loadDelay" -> "Load Delay"
    [] subpart = "loadDuration" -> "Load Duration"
    [] subpart = "renderDelay" -> "Render Delay"

\* A conversion that would not scale: PhaseDurationsAreMilliseconds tells it
\* from toMs.
toMsUnscaled(micro) == micro

\* part_000 165: micro / 1000, exact on the whole multiples of 1000 the model
\* uses.
toMs(micro) == micro \div 1000

\* Phases that would be zero-filled for the absent subparts:
\* PhasesFollowSubparts tells them from the ones of part_000.
RECURSIVE PhasesZeroFilled(_, _)
PhasesZeroFilled(subparts, i) ==
  IF i > Len(SubpartOrder)
    THEN <<>>
    ELSE << [name |-> PhaseName(SubpartOrder[i]),
             durationMs |-> IF SubpartOrder[i] \in DOMAIN subparts
                              THEN subparts[SubpartOrder[i]] \div 1000
                              ELSE 0] >>
         \o PhasesZeroFilled(subparts, i + 1)

\* part_000 162-179: one phase per subpart that is present, from the i-th on.
RECURSIVE PhasesFrom(_, _)
PhasesFrom(subparts, i) ==
  IF i > Len(SubpartOrder)
    THEN <<>>
    ELSE (IF SubpartOrder[i] \in DOMAIN subparts
            THEN << [name |-> PhaseName(SubpartOrder[i]),
                     durationMs |-> toMs(subparts[SubpartOrder[i]])] >>
            ELSE <<>>)
         \o PhasesFrom(subparts, i + 1)

\* part_000 139-186
getLCPBreakdownData(r, insightSetId) ==
  IF ~r.insights.defined
    THEN None
    ELSE LET insightSet == InsightSetOf(r.insights.value, insightSetId)
         IN  IF ~insightSet.defined
               THEN None
               ELSE LET model == insightSet.value.model
                        lcpInsight ==
                          IF "LCPBreakdown" \in DOMAIN model THEN model.LCPBreakdown ELSE None
                    IN  IF ~lcpInsight.defined
                          THEN None
                          ELSE Some([lcpMs |-> NullishOr(lcpInsight.value.lcpMs, Some(0)).value,
                                     backendNodeId |-> lcpInsight.value.nodeId,
                                     phases |-> IF lcpInsight.value.subparts.defined
                                                  THEN PhasesFrom(lcpInsight.value.subparts.value, 1)
                                                  ELSE <<>>])

\* A scan that would take the set at i without looking at its LCP:
\* LastPositiveLcpIsChosen tells it from the one of performance.ts.
TakeInsightSet(r, i) == IF i < 1 THEN None ELSE Some(r.insights.value[i].id)

\* performance.ts 241-248: the ids are scanned from the i-th down to the
\* first for a set whose LCP breakdown has a positive lcpMs.
RECURSIVE ScanInsightSets(_, _)
ScanInsightSets(r, i) ==
  IF i < 1
    THEN None
    ELSE LET id == r.insights.value[i].id
             data == getLCPBreakdownData(r, id)
         IN  IF data.defined /\ data.value.lcpMs > 0
               THEN Some(id)
               ELSE ScanInsightSets(r, i - 1)

\* performance.ts 237-249
finalInsightSetId(r) ==
  IF r.insights.defined THEN ScanInsightSets(r, Len(r.insights.value)) ELSE None

\* A node of the accessibility snapshot.
AXNode(backendNodeId, children) == [backendNodeId |-> backendNodeId, children |-> children]

\* What page.accessibility.snapshot() can resolve to: null, a tree that holds
\* DOM node 4, a tree that does not.
AXSnapshots ==
  {None,
   Some(AXNode(1, <<AXNode(2, <<>>), AXNode(3, <<AXNode(4, <<>>)>>)>>)),
   Some(AXNode(1, <<AXNode(2, <<>>)>>))}

RECURSIVE findAXNode(_, _), FindInChildren(_, _, _)

\* A search that would look into the children before the node itself:
\* FirstInPreOrderIsFound tells it from findAXNode.
ChildrenBeforeNode(node, backendNodeId) ==
  LET found == FindInChildren(node.children, 1, backendNodeId)
  IN  IF found.defined
        THEN found
        ELSE IF node.backendNodeId = backendNodeId THEN Some(node) ELSE None

\* performance.ts 290-307
findAXNode(node, backendNodeId) ==
  IF node.backendNodeId = backendNodeId
    THEN Some(node)
    ELSE FindInChildren(node.children, 1, backendNodeId)

\* performance.ts 298-305: the children from the i-th on, in their order.
FindInChildren(children, i, backendNodeId) ==
  IF i > Len(children)
    THEN None
    ELSE LET found == findAXNode(children[i], backendNodeId)
         IN  IF found.defined THEN found ELSE FindInChildren(children, i + 1, backendNodeId)

\* performance.ts 290-307: the nodes findAXNode is called on, in the order of
\* the calls, each named by its path from the root (the indices of the
\* children taken); path is the path of node.
RECURSIVE VisitedBy(_, _, _), VisitedInChildren(_, _, _, _)
VisitedBy(node, path, backendNodeId) ==
  IF node.backendNodeId = backendNodeId
    THEN <<path>>
    ELSE <<path>> \o VisitedInChildren(node.children, 1, path, backendNodeId)

\* performance.ts 298-305: the calls made for the children from the i-th on;
\* the loop is left when a child's search has found the node.
VisitedInChildren(children, i, path, backendNodeId) ==
  IF i > Len(children)
    THEN <<>>
    ELSE VisitedBy(children[i], Append(path, i), backendNodeId)
           \o (IF findAXNode(children[i], backendNodeId).defined
                 THEN <<>>
                 ELSE VisitedInChildren(children, i + 1, path, backendNodeId))

(***************************************************************************)
(* Layout shifts (src/unnamed/part_000)                                    *)
(***************************************************************************)

\* An image read that would know inline snapshots only:
\* ShiftEntriesFollowEvents tells it from ScreenshotOf.
SnapshotOnly(args) == GetProperty(args, "snapshot")

\* part_000 212-213, 216-217: 'snapshot' in args ? args.snapshot :
\* args.dataUri
ScreenshotOf(args) ==
  IF HasProperty(args, "snapshot")
    THEN GetProperty(args, "snapshot")
    ELSE GetProperty(args, "dataUri")

\* part_000 209-218: the images of one shift event; a slot is undefined
\* when the event has no such screenshot.
ImagesOf(event) ==
  [before |-> IF event.screenshots.before.defined
                THEN ScreenshotOf(event.screenshots.before.value.args)
                ELSE Undefined,
   after |-> IF event.screenshots.after.defined
               THEN ScreenshotOf(event.screenshots.after.value.args)
               ELSE Undefined]

\* part_000 220-224: the entry pushed for one shift event.
LayoutShiftOf(event) ==
  [ts |-> event.ts,
   score |-> NullishOr(IF event.args.data.defined
                         THEN GetProperty(event.args.data.value, "weighted_score_delta")
                         ELSE Undefined,
                       Some(0)).value,
   images |-> ImagesOf(event)]

\* Entries for the first event of a cluster only: ShiftsAreFlattened tells
\* them from the ones of part_000.
RECURSIVE FirstShiftOnly(_, _)
FirstShiftOnly(events, i) ==
  IF i > Len(events) \/ i > 1 THEN <<>> ELSE <<LayoutShiftOf(events[i])>>

\* part_000 208-225: the entries of the events of one cluster, from the
\* i-th on.
RECURSIVE ShiftsOfEvents(_, _)
ShiftsOfEvents(events, i) ==
  IF i > Len(events)
    THEN <<>>
    ELSE <<LayoutShiftOf(events[i])>> \o ShiftsOfEvents(events, i + 1)

\* part_000 207-226: the entries of the clusters from the c-th on.
RECURSIVE ShiftsOfClusters(_, _)
ShiftsOfClusters(clusters, c) ==
  IF c > Len(clusters)
    THEN <<>>
    ELSE ShiftsOfEvents(clusters[c].events, 1) \o ShiftsOfClusters(clusters, c + 1)

\* part_000 199-229
getLayoutShifts(r) == ShiftsOfClusters(r.parsedTrace.data.LayoutShifts.clusters, 1)

\* The images of the last entry of a timestamp: FirstMatchIsReturned tells
\* it from Array.prototype.find.
LastWithTs(shifts, timestamp) ==
  LET matches == {i \in DOMAIN shifts : shifts[i].ts = timestamp}
  IN  IF matches = {}
        THEN Undefined
        ELSE Some(shifts[CHOOSE i \in matches : \A k \in matches : k <= i])

\* part_000 236: shifts.find(s => s.ts === timestamp)
FindWithTs(shifts, timestamp) ==
  LET matches == {i \in DOMAIN shifts : shifts[i].ts = timestamp}
  IN  IF matches = {}
        THEN Undefined
        ELSE Some(shifts[CHOOSE i \in matches : \A k \in matches : i <= k])

\* part_000 231-238
getLayoutShiftImages(r, timestamp) ==
  LET match == FindWithTs(getLayoutShifts(r), timestamp)
  IN  IF match.defined THEN Some(match.value.images) ELSE None

(***************************************************************************)
(* stopTracingAndAppendOutput and performance_stop_trace                   *)
(***************************************************************************)

\* context.storeTraceRecording(result): the result becomes the last element
\* of the history that recordedTraces().at(-1) reads.
storeTraceRecording(history, r) == Append(history, r)

\* performance.ts 315-316: the stop sequence is entered and calls
\* page.tracing.stop().
stopTracingAndAppendOutput(h) ==
  /\ pc' = Upd(pc, h, "await_tracing_stop")
  /\ tracingSession' = [tracingSession EXCEPT !.stopCalls = @ + 1]
  /\ UNCHANGED <<isRunningPerformanceTrace, recordedTraces, browserTracing, pageUrl,
                 pageUrlForTracing, response, traceEventsBuffer, result, engineParsing,
                 engineCalls, lcpData>>

\* A stop sequence without its finally block: StopSequenceClearsFlag tells
\* it from the one of performance.ts.
StopReturnsKeepingFlag(h) ==
  /\ UNCHANGED isRunningPerformanceTrace
  /\ HandlerEnds(h, request[h].tool, "done")

\* A finally block that would also cancel the pending autoStop timers
\* (clearTimeout), ending the start handlers that wait for them:
\* TimerAlwaysFires tells it from the one of performance.ts.
StopFinallyCancelsTimers(h) ==
  /\ isRunningPerformanceTrace' = FALSE
  /\ pc' = [g \in Calls |-> IF g = h \/ pc[g] = "await_timer" THEN "done" ELSE pc[g]]
  /\ request' = Upd(request, h, Request(request[h].tool))
  /\ pageUrlForTracing' = Upd(pageUrlForTracing, h, NoUrl)
  /\ traceEventsBuffer' = Upd(traceEventsBuffer, h, NoBuffer)
  /\ result' = Upd(result, h, NoResult)
  /\ engineCalls' = Upd(engineCalls, h, <<>>)
  /\ lcpData' = Upd(lcpData, h, None)

\* performance.ts 354-356: the finally block; the stop sequence returns, and
\* with it the handler that awaited it.
StopFinally(h) ==
  /\ isRunningPerformanceTrace' = FALSE
  /\ HandlerEnds(h, request[h].tool, "done")

\* A catch that would swallow the exception without a report:
\* StopReportsOneOutcome tells it from StopCatch.
StopCatchSilent(h, lines) ==
  /\ response' = Upd(response, h, lines)
  /\ StopFinally(h)

\* performance.ts 347-356: an exception of the try block is caught and
\* reported; lines are the response lines appended before it.
StopCatch(h, lines) ==
  /\ response' = Upd(response, h, lines \o <<LineResponseError, LineErrorText>>)
  /\ StopFinally(h)

\* A stop sequence that would go to parseRawTraceBuffer without saving:
\* StopStepsInOrder tells it from the one of performance.ts.
ParseWithoutSave(h, buf) ==
  /\ UNCHANGED <<response, isRunningPerformanceTrace, pageUrlForTracing, lcpData>>
  /\ \E filePath \in FilePaths :
       /\ request' = Upd(request, h, [request[h] EXCEPT !.filePath = filePath])
       /\ parseRawTraceBuffer(h, buf)

\* performance.ts 317-335 after page.tracing.stop() returned buf: the save
\* is started when a filePath is given and there is a buffer, otherwise the
\* buffer goes to parseRawTraceBuffer.
SaveOrParse(h, buf) ==
  /\ UNCHANGED <<response, isRunningPerformanceTrace, pageUrlForTracing, lcpData>>
  /\ \E filePath \in FilePaths :
       /\ request' = Upd(request, h, [request[h] EXCEPT !.filePath = filePath])
       /\ IF filePath # "none" /\ buf # "undefined"
            THEN /\ traceEventsBuffer' = Upd(traceEventsBuffer, h, buf)
                 /\ pc' = Upd(pc, h, IF filePath = "trace.json.gz"
                                        THEN "await_gzip"
                                        ELSE "await_saveFile")
                 /\ UNCHANGED <<result, engineParsing, engineCalls>>
            ELSE parseRawTraceBuffer(h, buf)

\* The buffers page.tracing.stop() can resolve to: a page that is recording
\* yields any of them; on a page that is not recording the call rejects.
StopBuffers == IF browserTracing THEN TraceBuffers ELSE {}

\* performance.ts 316: page.tracing.stop() settles.
ResumeTracingStop(h) ==
  /\ pc[h] = "await_tracing_stop"
  /\ UNCHANGED <<applied, returned, emulation>>
  /\ UNCHANGED <<recordedTraces, pageUrl>>
  /\ \/ \E buf \in StopBuffers :
          /\ browserTracing' = FALSE
          /\ UNCHANGED tracingSession
          /\ SaveOrParse(h, buf)
     \/ /\ browserTracing' \in {browserTracing, FALSE}
        /\ UNCHANGED tracingSession
        /\ StopCatch(h, response[h])
        /\ UNCHANGED engineParsing

\* performance.ts 320-330: zlib.gzip settles.
ResumeGzip(h) ==
  /\ pc[h] = "await_gzip"
  /\ UNCHANGED <<applied, returned, emulation>>
  /\ UNCHANGED <<recordedTraces, browserTracing, tracingSession, pageUrl, engineParsing>>
  /\ \/ /\ pc' = Upd(pc, h, "await_saveFile")
        /\ UNCHANGED <<request, isRunningPerformanceTrace, pageUrlForTracing, response,
                       traceEventsBuffer, result, engineCalls, lcpData>>
     \/ StopCatch(h, response[h])

\* performance.ts 330-335: context.saveFile settles.
ResumeSaveFile(h) ==
  /\ pc[h] = "await_saveFile"
  /\ UNCHANGED <<applied, returned, emulation>>
  /\ UNCHANGED <<recordedTraces, browserTracing, tracingSession, pageUrl>>
  /\ \/ /\ response' = Upd(response, h, Append(response[h], LineSaved))
        /\ parseRawTraceBuffer(h, traceEventsBuffer[h])
        /\ UNCHANGED <<request, isRunningPerformanceTrace, pageUrlForTracing, lcpData>>
     \/ /\ StopCatch(h, response[h])
        /\ UNCHANGED engineParsing

\* performance.ts 336-340: the parse succeeded; the result is stored, then
\* getTraceSummary formats it (or throws).
StopParseSuccess(h) ==
  /\ recordedTraces' = storeTraceRecording(recordedTraces, result[h])
  /\ \/ /\ response' = Upd(response, h, response[h] \o <<LineStopped, LineSummary>>)
        /\ StopFinally(h)
     \/ StopCatch(h, Append(response[h], LineStopped))

\* A stop sequence that would store a parse error: HistoryIsAppendOnly tells
\* it from the one of performance.ts.
StopParseErrorStored(h) ==
  /\ response' =
       Upd(response, h, response[h] \o <<LineStopped, LineParseError, result[h].error>>)
  /\ StopFinally(h)
  /\ recordedTraces' = Append(recordedTraces, result[h])

\* performance.ts 336, 341-346: the parse returned an error value.
StopParseError(h) ==
  /\ response' =
       Upd(response, h, response[h] \o <<LineStopped, LineParseError, result[h].error>>)
  /\ StopFinally(h)
  /\ UNCHANGED recordedTraces

\* performance.ts 335-356: parseRawTraceBuffer settles.
ResumeStopAfterParse(h) ==
  /\ pc[h] = "await_parseRawTraceBuffer"
  /\ UNCHANGED <<applied, returned, emulation>>
  /\ UNCHANGED <<browserTracing, tracingSession, pageUrl, engineParsing>>
  /\ IF result[h] = Rejected
       THEN StopCatch(h, response[h]) /\ UNCHANGED recordedTraces
       ELSE IF traceResultIsSuccess(result[h])
              THEN StopParseSuccess(h)
              ELSE StopParseError(h)

\* performance.ts 104-110: the 5 s timer of autoStop fires.
ResumeTimer(h) ==
  /\ pc[h] = "await_timer"
  /\ UNCHANGED <<applied, returned, emulation>>
  /\ UNCHANGED request
  /\ stopTracingAndAppendOutput(h)

\* An idle stop that would report: StopWhileIdleIsNoOp tells it from the
\* handler's.
StopIgnoredReports(h) ==
  /\ response' = Upd(response, h, Append(response[h], LineStopped))
  /\ HandlerEnds(h, "performance_stop_trace", "done")
  /\ UNCHANGED <<isRunningPerformanceTrace, recordedTraces, browserTracing, tracingSession,
                 pageUrl,
                 engineParsing>>

\* performance.ts 131-133: no trace is running.
StopIgnored(h) ==
  /\ HandlerEnds(h, "performance_stop_trace", "done")
  /\ UNCHANGED <<isRunningPerformanceTrace, recordedTraces, browserTracing, tracingSession,
                 pageUrl,
                 response, engineParsing>>

\* performance.ts 130-141: the stop handler is entered.
StopTrace(h) ==
  /\ IsNextCall(h)
  /\ UNCHANGED <<applied, returned, emulation>>
  /\ IF ~isRunningPerformanceTrace
       THEN StopIgnored(h)
       ELSE /\ request' = Upd(request, h, Request("performance_stop_trace"))
            /\ stopTracingAndAppendOutput(h)

(***************************************************************************)
(* performance_analyze_insight and performance_show_lcp_breakdown          *)
(***************************************************************************)

\* The arguments a performance_analyze_insight call is made with.
InsightSetIds == {"NAVIGATION_0", "NAVIGATION_1"}
InsightNames == {"LCPBreakdown", "DocumentLatency"}

\* The oldest recording instead of the newest (recordedTraces().at(0)):
\* QueriesReadLastRecording tells it from recordedTraces().at(-1).
firstRecording == recordedTraces[1]

\* recordedTraces().at(-1)
lastRecording == recordedTraces[Len(recordedTraces)]

\* performance.ts 164-185.  The formatter of getInsightOutput may throw; the
\* handler does not catch it.
AnalyzeInsight(h) ==
  /\ IsNextCall(h)
  /\ UNCHANGED <<applied, returned, emulation>>
  /\ UNCHANGED <<isRunningPerformanceTrace, recordedTraces, browserTracing, tracingSession,
                 pageUrl,
                 engineParsing>>
  /\ IF recordedTraces = <<>>
       THEN /\ response' = Upd(response, h, <<LineNoRecordedTraces>>)
            /\ HandlerEnds(h, "performance_analyze_insight", "done")
       ELSE \E insightSetId \in InsightSetIds, insightName \in InsightNames :
              LET insightOutput == getInsightOutput(lastRecording, insightSetId, insightName)
              IN  IF "error" \in DOMAIN insightOutput
                    THEN /\ response' = Upd(response, h, <<insightOutput.error>>)
                         /\ HandlerEnds(h, "performance_analyze_insight", "done")
                    ELSE \/ /\ response' =
                                 Upd(response, h, <<insightOutput.output, LineLcpHint>>)
                            /\ HandlerEnds(h, "performance_analyze_insight", "done")
                         \/ /\ UNCHANGED response
                            /\ HandlerEnds(h, "performance_analyze_insight", "thrown")

\* performance.ts 284-287, 217-229: getLCPDataWithScreenshot returns the
\* breakdown, with the screenshot when one was taken, and the handler
\* appends it.
LcpReturns(h, withScreenshot) ==
  /\ response' =
       Upd(response, h,
           <<LineLcpOpened, LineJsonFence,
             IF withScreenshot THEN LineLcpDataWithScreenshot ELSE LineLcpData,
             LineFence>>)
  /\ HandlerEnds(h, "performance_show_lcp_breakdown", "done")

\* performance.ts 217-222, 251-258
LcpNotFound(h) ==
  /\ response' = Upd(response, h, <<LineNoLcpData>>)
  /\ HandlerEnds(h, "performance_show_lcp_breakdown", "done")

\* performance.ts 255-264: the breakdown of the chosen set is computed and,
\* when it names a DOM node, the accessibility snapshot is requested.
LcpFound(h, insightSetId) ==
  LET data == getLCPBreakdownData(lastRecording, insightSetId)
  IN  IF ~data.defined
        THEN LcpNotFound(h)
        ELSE IF data.value.backendNodeId.defined /\ data.value.backendNodeId.value # 0
               THEN /\ lcpData' = Upd(lcpData, h, data)
                    /\ pc' = Upd(pc, h, "await_snapshot")
                    /\ request' = Upd(request, h, Request("performance_show_lcp_breakdown"))
                    /\ UNCHANGED <<response, pageUrlForTracing, traceEventsBuffer, result,
                                   engineCalls>>
               ELSE LcpReturns(h, FALSE)

\* A handler that would take the last recording off the history
\* (recordedTraces().pop()) instead of reading it: QueriesAreReadOnly tells
\* it from the one of performance.ts.
ShowLCPBreakdownPopsHistory(h) ==
  /\ IsNextCall(h)
  /\ UNCHANGED <<applied, returned, emulation>>
  /\ UNCHANGED <<isRunningPerformanceTrace, browserTracing, tracingSession,
                 pageUrl, engineParsing>>
  /\ IF recordedTraces = <<>>
       THEN /\ response' = Upd(response, h, <<LineNoRecordedTraces>>)
            /\ HandlerEnds(h, "performance_show_lcp_breakdown", "done")
            /\ UNCHANGED recordedTraces
       ELSE /\ recordedTraces' = SubSeq(recordedTraces, 1, Len(recordedTraces) - 1)
            /\ LET id == finalInsightSetId(lastRecording)
               IN  IF ~id.defined \/ id.value = ""
                     THEN LcpNotFound(h)
                     ELSE LcpFound(h, id.value)

\* performance.ts 203-215, 233-264: the handler is entered.
ShowLCPBreakdown(h) ==
  /\ IsNextCall(h)
  /\ UNCHANGED <<applied, returned, emulation>>
  /\ UNCHANGED <<isRunningPerformanceTrace, recordedTraces, browserTracing, tracingSession,
                 pageUrl,
                 engineParsing>>
  /\ IF recordedTraces = <<>>
       THEN /\ response' = Upd(response, h, <<LineNoRecordedTraces>>)
            /\ HandlerEnds(h, "performance_show_lcp_breakdown", "done")
       ELSE LET id == finalInsightSetId(lastRecording)
            IN  IF ~id.defined \/ id.value = ""
                  THEN LcpNotFound(h)
                  ELSE LcpFound(h, id.value)

\* An await of the try block of getLCPDataWithScreenshot settles and the
\* handler goes on to its next await.
LcpGoesOn(h, next) ==
  /\ pc' = Upd(pc, h, next)
  /\ UNCHANGED <<request, response, pageUrlForTracing, traceEventsBuffer, result,
                 engineCalls, lcpData>>

\* performance.ts 264-268, 279-281: page.accessibility.snapshot() settles.
ResumeSnapshot(h) ==
  /\ pc[h] = "await_snapshot"
  /\ UNCHANGED <<applied, returned, emulation>>
  /\ UNCHANGED <<isRunningPerformanceTrace, recordedTraces, browserTracing, tracingSession,
                 pageUrl,
                 engineParsing>>
  /\ \/ \E root \in AXSnapshots :
          IF root.defined
             /\ findAXNode(root.value, lcpData[h].value.backendNodeId.value).defined
            THEN LcpGoesOn(h, "await_elementHandle")
            ELSE LcpReturns(h, FALSE)
     \/ LcpReturns(h, FALSE)

\* performance.ts 268-273, 279-281: node.elementHandle() settles with a
\* handle, with null, or rejects.
ResumeElementHandle(h) ==
  /\ pc[h] = "await_elementHandle"
  /\ UNCHANGED <<applied, returned, emulation>>
  /\ UNCHANGED <<isRunningPerformanceTrace, recordedTraces, browserTracing, tracingSession,
                 pageUrl,
                 engineParsing>>
  /\ \/ LcpGoesOn(h, "await_screenshot")
     \/ LcpReturns(h, FALSE)

\* performance.ts 270-275, 279-281: handle.screenshot() settles; the
\* screenshot is assigned before handle.dispose() is awaited.
ResumeScreenshot(h) ==
  /\ pc[h] = "await_screenshot"
  /\ UNCHANGED <<applied, returned, emulation>>
  /\ UNCHANGED <<isRunningPerformanceTrace, recordedTraces, browserTracing, tracingSession,
                 pageUrl,
                 engineParsing>>
  /\ \/ LcpGoesOn(h, "await_dispose")
     \/ LcpReturns(h, FALSE)

\* performance.ts 275-287: handle.dispose() settles, either way.
ResumeDispose(h) ==
  /\ pc[h] = "await_dispose"
  /\ UNCHANGED <<applied, returned, emulation>>
  /\ UNCHANGED <<isRunningPerformanceTrace, recordedTraces, browserTracing, tracingSession,
                 pageUrl,
                 engineParsing>>
  /\ LcpReturns(h, TRUE)

(***************************************************************************)
(* The functions of part_000 applied on their own                          *)
(***************************************************************************)

\* Longest event list of a trace text.
MaxEvents == 3

Events == {1, 2}

\* The event lists of up to MaxEvents events.
EventLists == UNION {[1..n -> Events] : n \in 0..MaxEvents}

\* The buffers parseRawTraceBuffer is applied to: undefined, one of each
\* kind of TraceBuffers, and every event list in both wire shapes.
Buffers ==
  {Undefined}
    \cup {Some(SampleBuffer(buf)) : buf \in TraceBuffers \ {"undefined"}}
    \cup {Some(TextEncode(BareArrayText(events))) : events \in EventLists}
    \cup {Some(TextEncode(WrappedText(events))) : events \in EventLists}

\* What engine.parsedTrace() can return: null, or a parsed trace whose
\* insights are undefined, null, or insight sets.
EngineTraces ==
  {None}
    \cup {Some([trace |-> 1, insights |-> insights]) :
            insights \in {Undefined, None, Some(SampleInsightSets)}}

\* What the engine does in one parseRawTraceBuffer.
EngineBehaviours ==
  [reset : {"returns", "throws"}, parse : {"resolves", "rejects"}, parsedTrace : EngineTraces]

\* Most insight sets of a trace.
MaxSets == 3

\* LCPBreakdown insights: lcpMs undefined or a number, the LCP event with or
\* without a DOM node, these subparts (microsecond ranges by name).
LcpInsight(lcpMs, nodeId, subparts) ==
  [lcpMs |-> lcpMs, nodeId |-> nodeId, subparts |-> subparts]

\* The model of an insight set: a Viewport insight, and the LCPBreakdown
\* insight lcp.is when there is that key.
InsightModel(lcp) ==
  IF ~lcp.present
    THEN [Viewport |-> Some("Viewport insight")]
    ELSE [Viewport |-> Some("Viewport insight"), LCPBreakdown |-> lcp.is]

\* The LCPBreakdown entries of the models: no such key, a null value, and
\* insights with lcpMs undefined, 0, negative and 120.
LcpEntries ==
  {[present |-> FALSE], [present |-> TRUE, is |-> None]}
    \cup {[present |-> TRUE, is |-> Some(LcpInsight(lcpMs, Some(4), None))] :
            lcpMs \in {None, Some(0), Some(0 - 5), Some(120)}}

InsightSetIdOrder ==
  <<"NAVIGATION_0", "NAVIGATION_1", "NAVIGATION_2", "NAVIGATION_3", "NO_NAVIGATION">>

\* The Maps of up to MaxSets insight sets, their ids in insertion order.
InsightSetMaps ==
  UNION {{[i \in 1..n |-> [id |-> InsightSetIdOrder[i], model |-> InsightModel(lcps[i])]] :
            lcps \in [1..n -> LcpEntries]} : n \in 0..MaxSets}

\* The stored results the insight functions are applied to.
TraceResults ==
  {[parsedTrace |-> 1, insights |-> None]}
    \cup {[parsedTrace |-> 1, insights |-> Some(sets)] : sets \in InsightSetMaps}

\* Microsecond ranges of the subparts, whole multiples of 1000.
Ranges == {0, 20000, 50000}

SubpartNames == {SubpartOrder[i] : i \in DOMAIN SubpartOrder}

\* The subparts objects: every choice of the subparts present, each with a
\* range.
SubpartMaps == UNION {[present -> Ranges] : present \in SUBSET SubpartNames}

\* Results with one insight set, whose LCPBreakdown insight has these
\* subparts (or none), an lcpMs or not, a DOM node or not.
LcpResults ==
  {[parsedTrace |-> 1,
    insights |->
      Some(<<[id |-> "NAVIGATION_0",
              model |-> InsightModel([present |-> TRUE,
                                      is |-> Some(LcpInsight(lcpMs, nodeId, subparts))])]>>)] :
     lcpMs \in {None, Some(120)},
     nodeId \in {None, Some(4)},
     subparts \in {None} \cup {Some(m) : m \in SubpartMaps}}

\* Most clusters of a trace, and most shift events of a cluster.
MaxClusters == 2
MaxShifts == 2

\* The timestamps of the shift events.
Timestamps == {1234, 5678}

\* Shift events: at each timestamp, one with both screenshots as inline
\* snapshots and a weighted score; at the first timestamp also one with
\* only an after screenshot, as a data URI, and no score.
ShiftEvents ==
  {[ts |-> ts,
    args |-> [data |-> Some([score |-> Some(2), weighted_score_delta |-> Some(1)])],
    screenshots |-> [before |-> Some([args |-> [snapshot |-> Some("before.png")]]),
                     after |-> Some([args |-> [snapshot |-> Some("after.png")]])]] :
     ts \in Timestamps}
    \cup
  {[ts |-> 1234,
    args |-> [data |-> Some([score |-> Some(2)])],
    screenshots |-> [before |-> None,
                     after |-> Some([args |-> [dataUri |-> Some("data:after")]])]]}

\* The results with one cluster of one event of any shape: args.data
\* absent, present without a weighted score, or with a weighted score of 0
\* or 1; each of the two screenshot artifacts absent, an inline snapshot, or
\* a data URI.
OneShiftResults ==
  LET data == {Undefined, Some([score |-> Some(2)])}
                \cup {Some([score |-> Some(2), weighted_score_delta |-> Some(w)]) : w \in {0, 1}}
      Artifacts(snapshot, dataUri) ==
        {None,
         Some([args |-> [snapshot |-> Some(snapshot)]]),
         Some([args |-> [dataUri |-> Some(dataUri)]])}
      shapes ==
        {[ts |-> 1234, args |-> [data |-> d], screenshots |-> [before |-> x, after |-> y]] :
           d \in data,
           x \in Artifacts("before.png", "data:before"),
           y \in Artifacts("after.png", "data:after")}
  IN  {[parsedTrace |-> [data |-> [LayoutShifts |-> [clusters |-> <<[events |-> <<e>>]>>]]],
        insights |-> None] : e \in shapes}

\* The clusters of up to MaxShifts events.
Clusters == {[events |-> events] : events \in UNION {[1..n -> ShiftEvents] : n \in 0..MaxShifts}}

\* The results the layout shift functions are applied to.
LayoutShiftResults ==
  {[parsedTrace |-> [data |-> [LayoutShifts |-> [clusters |-> clusters]]], insights |-> None] :
     clusters \in UNION {[1..n -> Clusters] : n \in 0..MaxClusters}}

\* The timestamps getLayoutShiftImages is asked for.
AskedTimestamps == Timestamps \cup {999}

\* One function is applied in a run.
CanApply == applied = NotApplied

\* The lifecycle is left alone.
LifecycleUnchanged ==
  UNCHANGED <<request, pc, isRunningPerformanceTrace, recordedTraces, browserTracing,
              tracingSession, pageUrl, pageUrlForTracing, response, traceEventsBuffer,
              result, engineParsing, engineCalls, lcpData, emulation>>

\* part_000 27-71
ApplyParseRawTraceBuffer ==
  /\ CanApply
  /\ LifecycleUnchanged
  /\ \E buffer \in Buffers, engine \in EngineBehaviours :
       /\ applied' = [fn |-> "parseRawTraceBuffer", buffer |-> buffer, engine |-> engine]
       /\ returned' = ParseSettles(buffer, engine)

\* The insight names and set ids getInsightOutput is asked for.
AskedInsightNames == {"LCPBreakdown", "Viewport", "DocumentLatency", "constructor"}
AskedInsightSetIds == {"NAVIGATION_0", "NAVIGATION_1", "NAVIGATION_9"}

\* part_000 94-126; the formatter of lines 121-125 may throw.
ApplyGetInsightOutput ==
  /\ CanApply
  /\ LifecycleUnchanged
  /\ \E r \in TraceResults, insightSetId \in AskedInsightSetIds,
        insightName \in AskedInsightNames :
       /\ applied' = [fn |-> "getInsightOutput", result |-> r,
                      insightSetId |-> insightSetId, insightName |-> insightName]
       /\ LET insightOutput == getInsightOutput(r, insightSetId, insightName)
          IN  \/ returned' = insightOutput
              \/ /\ "output" \in DOMAIN insightOutput
                 /\ returned' = [threw |-> TRUE]

\* part_000 139-186
ApplyGetLCPBreakdownData ==
  /\ CanApply
  /\ LifecycleUnchanged
  /\ \E r \in TraceResults \cup LcpResults, insightSetId \in AskedInsightSetIds :
       /\ applied' = [fn |-> "getLCPBreakdownData", result |-> r,
                      insightSetId |-> insightSetId]
       /\ returned' = getLCPBreakdownData(r, insightSetId)

\* performance.ts 237-258: the LCP data getLCPDataWithScreenshot goes on
\* with, or null.
getLCPData(r) ==
  LET id == finalInsightSetId(r)
  IN  IF ~id.defined \/ id.value = "" THEN None ELSE getLCPBreakdownData(r, id.value)

\* performance.ts 233-258
ApplyGetLCPData ==
  /\ CanApply
  /\ LifecycleUnchanged
  /\ \E r \in TraceResults :
       /\ applied' = [fn |-> "getLCPDataWithScreenshot", result |-> r]
       /\ returned' = [finalInsightSetId |-> finalInsightSetId(r), lcpData |-> getLCPData(r)]

\* What the awaited calls of the try block of getLCPDataWithScreenshot do:
\* page.accessibility.snapshot() rejects or resolves to one of AXSnapshots,
\* node.elementHandle() resolves to a handle or to null or rejects,
\* handle.screenshot() and handle.dispose() resolve or reject.
PageBehaviours ==
  [snapshot : {Rejected} \cup AXSnapshots,
   elementHandle : {"handle", "null", "throws"},
   screenshot : {"returns", "throws"},
   dispose : {"returns", "throws"}]

\* Buffer.from(screenshotBuffer).toString('base64')
ScreenshotBase64 == "base64 of the PNG"

\* A try block that would assign the screenshot only once handle.dispose()
\* has returned: ScreenshotFailureLosesOnlyScreenshot tells it from the one of
\* performance.ts.
ScreenshotAfterDispose(backendNodeId, page) ==
  IF page.snapshot = Rejected \/ ~page.snapshot.defined
    THEN Undefined
  ELSE IF ~findAXNode(page.snapshot.value, backendNodeId).defined
    THEN Undefined
  ELSE IF page.elementHandle # "handle" \/ page.screenshot = "throws"
            \/ page.dispose = "throws"
    THEN Undefined
  ELSE Some(ScreenshotBase64)

\* performance.ts 260-282: the value of the local screenshot after the try
\* block.  An exception of any awaited call is caught; the screenshot is
\* assigned (274) before handle.dispose() is awaited (275).
ScreenshotTaken(backendNodeId, page) ==
  IF page.snapshot = Rejected \/ ~page.snapshot.defined
    THEN Undefined
  ELSE IF ~findAXNode(page.snapshot.value, backendNodeId).defined
    THEN Undefined
  ELSE IF page.elementHandle # "handle" \/ page.screenshot = "throws"
    THEN Undefined
  ELSE Some(ScreenshotBase64)

\* performance.ts 233-288: what getLCPDataWithScreenshot resolves to.
getLCPDataWithScreenshot(r, page) ==
  LET data == getLCPData(r)
  IN  IF ~data.defined
        THEN None
        ELSE LET backendNodeId == data.value.backendNodeId
             IN  Some([lcpMs |-> data.value.lcpMs,
                       backendNodeId |-> backendNodeId,
                       phases |-> data.value.phases,
                       screenshot |->
                         IF backendNodeId.defined /\ backendNodeId.value # 0
                           THEN ScreenshotTaken(backendNodeId.value, page)
                           ELSE Undefined])

\* Results with one insight set whose LCPBreakdown insight has an lcpMs or
\* not, no DOM node or node 0 or node 4, and subparts or not.
ScreenshotResults ==
  {[parsedTrace |-> 1,
    insights |->
      Some(<<[id |-> "NAVIGATION_0",
              model |-> InsightModel([present |-> TRUE,
                                      is |-> Some(LcpInsight(lcpMs, nodeId, subparts))])]>>)] :
     lcpMs \in {None, Some(120)},
     nodeId \in {None, Some(0), Some(4)},
     subparts \in {None, Some([ttfb |-> 50000, loadDelay |-> 20000])}}

\* performance.ts 233-288
ApplyGetLCPDataWithScreenshot ==
  /\ CanApply
  /\ LifecycleUnchanged
  /\ \E r \in ScreenshotResults, page \in PageBehaviours :
       /\ applied' = [fn |-> "getLCPDataWithScreenshot on a page", result |-> r,
                      page |-> page]
       /\ returned' = getLCPDataWithScreenshot(r, page)

\* part_000 199-229
ApplyGetLayoutShifts ==
  /\ CanApply
  /\ LifecycleUnchanged
  /\ \E r \in LayoutShiftResults \cup OneShiftResults :
       /\ applied' = [fn |-> "getLayoutShifts", result |-> r]
       /\ returned' = getLayoutShifts(r)

\* part_000 231-238
ApplyGetLayoutShiftImages ==
  /\ CanApply
  /\ LifecycleUnchanged
  /\ \E r \in LayoutShiftResults, timestamp \in AskedTimestamps :
       /\ applied' = [fn |-> "getLayoutShiftImages", result |-> r, timestamp |-> timestamp]
       /\ returned' = getLayoutShiftImages(r, timestamp)

\* Most children of a node of an accessibility tree.
MaxChildren == 2

\* The backend node ids of the nodes of the trees; the same id can occur at
\* several nodes.
AXIds == {1, 4}

\* Accessibility trees of up to three levels, each node with up to
\* MaxChildren children.
AXTrees ==
  LET ChildLists(nodes) == UNION {[1..n -> nodes] : n \in 0..MaxChildren}
      leaves == {AXNode(id, <<>>) : id \in AXIds}
      subtrees == {AXNode(id, children) : id \in AXIds, children \in ChildLists(leaves)}
  IN  {AXNode(id, children) : id \in AXIds, children \in ChildLists(subtrees)}

\* performance.ts 290-307.  The ids searched for are those of the nodes and
\* 99, the id of no node.
ApplyFindAXNode ==
  /\ CanApply
  /\ LifecycleUnchanged
  /\ \E root \in AXTrees, backendNodeId \in AXIds \cup {99} :
       /\ applied' = [fn |-> "findAXNode", node |-> root, backendNodeId |-> backendNodeId]
       /\ returned' = [found |-> findAXNode(root, backendNodeId),
                       visited |-> VisitedBy(root, <<>>, backendNodeId)]

ApplyNext ==
  \/ ApplyFindAXNode
  \/ ApplyGetLCPDataWithScreenshot
  \/ ApplyParseRawTraceBuffer
  \/ ApplyGetLayoutShifts
  \/ ApplyGetLayoutShiftImages
  \/ ApplyGetLCPBreakdownData
  \/ ApplyGetLCPData
  \/ ApplyGetInsightOutput

SpecFunctions == Init /\ [][ApplyNext]_vars

Next ==
  \E h \in Calls :
    \/ StartTrace(h)
    \/ ResumeGotoBlank(h)
    \/ ResumeTracingStart(h)
    \/ ResumeGotoUrl(h)
    \/ ResumeTimer(h)
    \/ StopTrace(h)
    \/ ResumeTracingStop(h)
    \/ ResumeGzip(h)
    \/ ResumeSaveFile(h)
    \/ ResumeEngineParse(h)
    \/ ResumeStopAfterParse(h)
    \/ AnalyzeInsight(h)
    \/ ShowLCPBreakdown(h)
    \/ ResumeSnapshot(h)
    \/ ResumeElementHandle(h)
    \/ ResumeScreenshot(h)
    \/ ResumeDispose(h)

Spec == Init /\ [][Next]_vars

\* The 5 s timer of an accepted autoStop start is a setTimeout of the event
\* loop: once set, it fires.
SpecTimers == Spec /\ \A h \in Calls : WF_vars(ResumeTimer(h))

(***************************************************************************)
(* emulate_set_parameters (src/src/tools/emulation.ts)                     *)
(***************************************************************************)

\* emulation.ts 7: puppeteer's PredefinedNetworkConditions, an object from
\* the names of the conditions to the conditions.
PredefinedNetworkConditions ==
  [name \in {"Slow 3G", "Fast 3G", "Slow 4G", "Fast 4G"} |-> Some(name)]

\* emulation.ts 50-84: the page call awaited at an await of applyEmulation:
\* the setting it is about, the argument the page is given and the value
\* the context setter stores once the call has returned.
PageCall(params, at) ==
  CASE at = "await_emulateNetworkConditions" ->
         LET name == params.networkConditions.value
         IN  [setting |-> "networkConditions",
              argument |-> IF name = "No emulation" THEN None
                           ELSE IF name = "Offline"
                             THEN Some("offline: true, download: 0, upload: 0, latency: 0")
                           ELSE GetProperty(PredefinedNetworkConditions, name),
              stored |-> IF name = "No emulation" THEN None ELSE Some(name)]
    [] at = "await_emulateCPUThrottling" ->
         [setting |-> "cpuThrottlingRate",
          argument |-> params.cpuThrottlingRate,
          stored |-> params.cpuThrottlingRate]
    [] at = "await_setGeolocation" ->
         [setting |-> "geolocation",
          argument |-> IF params.geolocation = None
                         THEN Some([latitude |-> 0, longitude |-> 0])
                         ELSE params.geolocation,
          stored |-> params.geolocation]

\* emulation.ts 50-84, 123-124: call h goes on after the given number of
\* the three settings: it awaits the first page call that is still due, or
\* applyEmulation returns and the handler appends its line.
EmulationAfter(e, h, settings) ==
  LET params == e.params[h].value
      name == params.networkConditions
      next ==
        IF /\ settings < 1
           /\ name.defined /\ name.value # ""
           /\ \/ name.value \in {"No emulation", "Offline"}
              \/ HasProperty(PredefinedNetworkConditions, name.value)
          THEN "await_emulateNetworkConditions"
        ELSE IF /\ settings < 2
                /\ params.cpuThrottlingRate.defined /\ params.cpuThrottlingRate.value # 0
          THEN "await_emulateCPUThrottling"
        ELSE IF settings < 3 /\ params.geolocation # Undefined
          THEN "await_setGeolocation"
        ELSE "done"
  IN  [e EXCEPT !.pc[h] = next,
                !.response[h] = IF next = "done"
                                  THEN Append(@, "EMULATION_SETTINGS_APPLIED")
                                  ELSE @]

\* emulation.ts 122-123, 46-50: the handler of emulate_set_parameters is
\* entered with its parameters: a networkConditions name or none, a
\* cpuThrottlingRate or none, a geolocation, null or none.
EmulateSetParameters(h) ==
  /\ emulation.pc[h] = "idle"
  /\ \E params \in
         [networkConditions :
            {Undefined} \cup {Some(name) : name \in {"", "No emulation", "Offline", "Slow 3G",
                                                    "toString", "Fast 7G"}},
          cpuThrottlingRate : {Undefined, Some(0), Some(4)},
          geolocation : {Undefined, None, Some([latitude |-> 48, longitude |-> 2])}] :
       emulation' = EmulationAfter([emulation EXCEPT !.params[h] = Some(params)], h, 0)
  /\ UNCHANGED <<request, pc, isRunningPerformanceTrace, recordedTraces, browserTracing,
                 tracingSession, pageUrl, pageUrlForTracing, response, traceEventsBuffer,
                 result, engineParsing, engineCalls, lcpData, applied, returned>>

\* emulation.ts 52-53, 55-61, 67-68, 73-74, 78-79, 81-82: the page call that
\* call h awaits settles.  When it returns, the page has the argument, the
\* context setter runs and the call goes on; when it throws, the exception
\* leaves applyEmulation and the handler.
ResumePageCall(h) ==
  /\ emulation.pc[h] \notin {"idle", "done", "thrown"}
  /\ LET call == PageCall(emulation.params[h].value, emulation.pc[h])
         settings == CASE call.setting = "networkConditions" -> 1
                       [] call.setting = "cpuThrottlingRate" -> 2
                       [] call.setting = "geolocation" -> 3
     IN  \/ emulation' =
              EmulationAfter([emulation EXCEPT !.page[call.setting] = call.argument,
                                               !.context[call.setting] = call.stored],
                             h, settings)
         \/ emulation' = [emulation EXCEPT !.pc[h] = "thrown"]
  /\ UNCHANGED <<request, pc, isRunningPerformanceTrace, recordedTraces, browserTracing,
                 tracingSession, pageUrl, pageUrlForTracing, response, traceEventsBuffer,
                 result, engineParsing, engineCalls, lcpData, applied, returned>>

EmulationNext ==
  \E h \in 1..MaxEmulations :
    \/ EmulateSetParameters(h)
    \/ ResumePageCall(h)

SpecEmulation == Init /\ [][EmulationNext]_vars

(***************************************************************************)
(* Properties                                                              *)
(***************************************************************************)

Ended(h) == pc[h] \in {"done", "thrown"}

StopSequencePcs ==
  {"await_tracing_stop", "await_gzip", "await_saveFile", "await_engine_parse",
   "await_parseRawTraceBuffer"}

\* The step enters the handler of tool call h.
Enters(h, tool) == pc[h] = "idle" /\ pc'[h] # "idle" /\ request'[h].tool = tool

\* C1: a performance_start_trace entered while the recording flag is true
\* appends the 'already running' line and returns; it changes neither the
\* flag nor the page (no navigation, no page.tracing.start) nor the history.
StartWhileRunningIsRejected ==
  [][\A h \in Calls :
       (Enters(h, "performance_start_trace") /\ isRunningPerformanceTrace)
         => /\ response'[h] = <<LineAlreadyRunning>>
            /\ pc'[h] = "done"
            /\ isRunningPerformanceTrace'
            /\ pageUrl' = pageUrl
            /\ browserTracing' = browserTracing
            /\ recordedTraces' = recordedTraces]_vars

StartWasRejected ==
  \E h \in Calls :
    /\ request[h].tool = "performance_start_trace"
    /\ pc[h] = "done"
    /\ response[h] = <<LineAlreadyRunning>>
    /\ isRunningPerformanceTrace

\* C2: every stop sequence ends with the recording flag false, whichever
\* step failed, and a start entered while the flag is false is accepted.
StopSequenceClearsFlag ==
  [][\A h \in Calls :
       /\ (pc[h] \in StopSequencePcs /\ pc'[h] \notin StopSequencePcs)
            => (pc'[h] = "done" /\ ~isRunningPerformanceTrace')
       /\ (Enters(h, "performance_start_trace") /\ ~isRunningPerformanceTrace)
            => (pc'[h] \in {"await_goto_blank", "await_tracing_start"}
                /\ isRunningPerformanceTrace')]_vars

\* A stop sequence reported an exception, and the start issued after it is
\* accepted.
StartAcceptedAfterFailedStop ==
  \E h, g \in Calls :
    /\ h < g
    /\ pc[h] = "done"
    /\ response[h] = <<LineResponseError, LineErrorText>>
    /\ \A k \in Calls : k < g => Ended(k)
    /\ request[g].tool = "performance_start_trace"
    /\ pc[g] \in {"await_goto_blank", "await_tracing_start"}

\* C3: when every handler has terminated and one of them threw, the flag is
\* not left true without a recording in progress.
NeverStuckInRecording ==
  ((\E h \in Calls : pc[h] = "thrown") /\ (\A h \in Calls : pc[h] = "idle" \/ Ended(h)))
    => ~(isRunningPerformanceTrace /\ ~browserTracing)

\* C4: no engine.resetProcessor() or engine.parse() begins while the
\* engine.parse() of another invocation is in flight.
ParsesAreSequential ==
  [][\A h \in Calls :
       (engineCalls[h] = <<>> /\ engineCalls'[h] # <<>>) => engineParsing \ {h} = {}]_vars

\* C5: a performance_stop_trace entered while the flag is false returns at
\* once: no response line, no page.tracing.stop, no save, no parse, and the
\* flag and the history as they were.
StopWhileIdleIsNoOp ==
  [][\A h \in Calls :
       (Enters(h, "performance_stop_trace") /\ ~isRunningPerformanceTrace)
         => /\ pc'[h] = "done"
            /\ response'[h] = <<>>
            /\ engineCalls' = engineCalls
            /\ engineParsing' = engineParsing
            /\ browserTracing' = browserTracing
            /\ ~isRunningPerformanceTrace'
            /\ recordedTraces' = recordedTraces]_vars

StopRepeatedWhileIdle ==
  \E h, g \in Calls :
    /\ h # g
    /\ \A k \in {h, g} :
         /\ request[k].tool = "performance_stop_trace"
         /\ pc[k] = "done"
         /\ response[k] = <<>>
    /\ ~isRunningPerformanceTrace

\* C6: the history changes only when a stop sequence resumes with a
\* TraceResult, and then exactly that result is appended at its end; every
\* other step (parse error value, exception, rejected start, idle stop,
\* insight or LCP query) leaves it as it is.
HistoryIsAppendOnly ==
  [][/\ \A h \in Calls :
          (pc[h] = "await_parseRawTraceBuffer" /\ pc'[h] # pc[h]
             /\ traceResultIsSuccess(result[h]))
            => recordedTraces' = Append(recordedTraces, result[h])
     /\ recordedTraces' # recordedTraces
          => \E h \in Calls :
               /\ pc[h] = "await_parseRawTraceBuffer"
               /\ pc'[h] = "done"
               /\ traceResultIsSuccess(result[h])
               /\ recordedTraces' = Append(recordedTraces, result[h])]_vars

\* Two results are stored, the later one last, and an insight query that
\* ran between the two recordings has returned.
HistoryHoldsTwoResults ==
  /\ Len(recordedTraces) = 2
  /\ recordedTraces[1].parsedTrace < recordedTraces[2].parsedTrace
  /\ \E g \in Calls :
       /\ recordedTraces[1].parsedTrace < g
       /\ g < recordedTraces[2].parsedTrace
       /\ request[g].tool = "performance_analyze_insight"
       /\ response[g] = <<LineInsightOutput, LineLcpHint>>

\* C7: for an absent buffer and for one that decodes to the empty string,
\* parseRawTraceBuffer returns the input error and calls no engine method.
AbsentBufferNeverInvokesEngine ==
  \A h \in Calls :
    (pc[h] = "await_parseRawTraceBuffer" /\ traceEventsBuffer[h] \in {"undefined", "empty"})
      => /\ result[h] = [error |-> IF traceEventsBuffer[h] = "undefined"
                                     THEN ErrNoBuffer
                                     ELSE ErrEmptyString]
         /\ engineCalls[h] = <<>>

\* C8: parseRawTraceBuffer never throws: it settles with a TraceResult or
\* with a TraceParseError, never both.
ParseNeverThrows ==
  \A h \in Calls :
    pc[h] = "await_parseRawTraceBuffer"
      => /\ result[h] # Rejected
         /\ traceResultIsSuccess(result[h]) # IsParseError(result[h])

SaveFailureStillParses ==
  [][\A h \in Calls :
       pc[h] \in {"await_gzip", "await_saveFile"}
         => pc'[h] \in {pc[h], "await_saveFile", "await_engine_parse",
                        "await_parseRawTraceBuffer"}]_vars

\* The JSON array of the events of a list.
EventArray(events) == JsonArray([i \in DOMAIN events |-> JsonNumber(events[i])])

\* C11: for every event list, parseRawTraceBuffer on the bytes of the bare
\* array and on the bytes of the object {traceEvents: array} settles alike
\* under the same engine behaviour, and passes to engine.parse that very
\* list, in its order.
WireShapesAreEquivalent ==
  \A events \in EventLists :
    LET bare == Some(TextEncode(BareArrayText(events)))
        wrapped == Some(TextEncode(WrappedText(events)))
    IN  (applied.fn = "parseRawTraceBuffer" /\ applied.buffer \in {bare, wrapped})
          => /\ returned = ParseSettles(bare, applied.engine)
             /\ returned = ParseSettles(wrapped, applied.engine)
             /\ applied.engine.reset = "returns"
                  => returned.passed = Some(EventArray(events))

\* Three events in the object shape were passed to the engine and a
\* TraceResult came back.
WrappedEventsWereParsed ==
  /\ applied.fn = "parseRawTraceBuffer"
  /\ applied.buffer = Some(TextEncode(WrappedText(<<1, 2, 1>>)))
  /\ returned.passed = Some(EventArray(<<1, 2, 1>>))
  /\ traceResultIsSuccess(returned.result)

\* C12: once engine.parse has resolved, parseRawTraceBuffer returns the 'No
\* parsed trace' error when engine.parsedTrace() is null, and otherwise a
\* TraceResult of that parsed trace and its insights, the insights being
\* null when the engine has none (undefined or null).
ParsedTraceIsBundled ==
  (applied.fn = "parseRawTraceBuffer" /\ returned.passed.defined
     /\ applied.engine.parse = "resolves")
    => LET parsedTrace == applied.engine.parsedTrace
       IN  IF ~parsedTrace.defined
             THEN returned.result = [error |-> ErrNoParsedTrace]
             ELSE /\ traceResultIsSuccess(returned.result)
                  /\ ~IsParseError(returned.result)
                  /\ returned.result.parsedTrace = parsedTrace.value.trace
                  /\ returned.result.insights # Undefined
                  /\ returned.result.insights =
                       (IF parsedTrace.value.insights \in {Undefined, None}
                          THEN None
                          ELSE parsedTrace.value.insights)

\* A parsed trace whose insights are undefined was returned with null
\* insights.
UndefinedInsightsBecameNull ==
  /\ applied.fn = "parseRawTraceBuffer"
  /\ applied.engine.parsedTrace.defined
  /\ applied.engine.parsedTrace.value.insights = Undefined
  /\ traceResultIsSuccess(returned.result)
  /\ returned.result.insights = None

\* The insight set of an id in a Map of insight sets, if there is one.
SetWithId(sets, id) == {sets[i] : i \in {k \in DOMAIN sets : sets[k].id = id}}

\* C13: getInsightOutput returns the 'no insights' error when the insights
\* are absent; else the 'insight set id' error when no set has the id; else
\* the error naming the insight when the name is no key of the set's model
\* or its value is falsy; else the formatter's output.  Only the formatter
\* can throw.
InsightLookupOrder ==
  applied.fn = "getInsightOutput"
    => IF ~applied.result.insights.defined
         THEN returned = [error |-> ErrNoInsights]
       ELSE IF SetWithId(applied.result.insights.value, applied.insightSetId) = {}
         THEN returned = [error |-> ErrNoInsightSet]
       ELSE LET set == CHOOSE x \in SetWithId(applied.result.insights.value,
                                               applied.insightSetId) : TRUE
            IN  IF \/ applied.insightName \notin DOMAIN set.model
                   \/ ~set.model[applied.insightName].defined
                  THEN returned = [error |-> ErrNoInsight(applied.insightName)]
                  ELSE returned \in {[output |-> LineInsightOutput], [threw |-> TRUE]}

\* The LCPBreakdown insight getLCPBreakdownData was asked for: the insight
\* sets of the asked id that have one.
AskedLcpInsights ==
  IF ~applied.result.insights.defined
    THEN {}
    ELSE {set.model.LCPBreakdown.value :
            set \in {x \in SetWithId(applied.result.insights.value, applied.insightSetId) :
                       /\ "LCPBreakdown" \in DOMAIN x.model
                       /\ x.model.LCPBreakdown.defined}}

\* The one LCPBreakdown insight asked for.
AskedLcpInsight == CHOOSE lcpInsight \in AskedLcpInsights : TRUE

\* C14: getLCPBreakdownData returns null exactly when the insights are
\* absent, no set has the id, or the set has no LCPBreakdown insight; in
\* every other case it returns a breakdown.
NullForMissingLcp ==
  applied.fn = "getLCPBreakdownData"
    => /\ returned = None <=> AskedLcpInsights = {}
       /\ returned # None => (returned.defined /\ "phases" \in DOMAIN returned.value)

\* Null was returned for a set that exists and has no LCPBreakdown insight,
\* in a trace with another set that has one.
NullForSetWithoutLcp ==
  /\ applied.fn = "getLCPBreakdownData"
  /\ applied.result.insights.defined
  /\ SetWithId(applied.result.insights.value, applied.insightSetId) # {}
  /\ \E i \in DOMAIN applied.result.insights.value :
       LET model == applied.result.insights.value[i].model
       IN  "LCPBreakdown" \in DOMAIN model /\ model.LCPBreakdown.defined
  /\ returned = None

\* The names of the phases of a breakdown, in their order.
PhaseNames(phases) == [i \in DOMAIN phases |-> phases[i].name]

\* The place of a phase name in the order TTFB, Load Delay, Load Duration,
\* Render Delay.
PhasePlace(name) == CHOOSE i \in DOMAIN SubpartOrder : PhaseName(SubpartOrder[i]) = name

\* The subparts present in the insight asked for.
AskedSubparts ==
  IF AskedLcpInsight.subparts.defined THEN AskedLcpInsight.subparts.value ELSE <<>>

\* C15: the phases are one per subpart present, none for an absent one, in
\* the order TTFB, Load Delay, Load Duration, Render Delay; without
\* subparts there are none.
PhasesFollowSubparts ==
  (applied.fn = "getLCPBreakdownData" /\ returned.defined)
    => LET phases == returned.value.phases
       IN  /\ Len(phases) = Cardinality(DOMAIN AskedSubparts)
           /\ {phases[i].name : i \in DOMAIN phases}
                = {PhaseName(subpart) : subpart \in DOMAIN AskedSubparts}
           /\ \A i, j \in DOMAIN phases :
                i < j => PhasePlace(phases[i].name) < PhasePlace(phases[j].name)

\* Only ttfb and renderDelay are present and the phases are TTFB, Render
\* Delay.
TwoPhasesOfFour ==
  /\ applied.fn = "getLCPBreakdownData"
  /\ returned.defined
  /\ DOMAIN AskedSubparts = {"ttfb", "renderDelay"}
  /\ PhaseNames(returned.value.phases) = <<"TTFB", "Render Delay">>

\* C16: the durationMs of each phase is the microsecond range of its own
\* subpart divided by 1000.
PhaseDurationsAreMilliseconds ==
  (applied.fn = "getLCPBreakdownData" /\ returned.defined)
    => \A i \in DOMAIN returned.value.phases :
         \E subpart \in DOMAIN AskedSubparts :
           /\ PhaseName(subpart) = returned.value.phases[i].name
           /\ returned.value.phases[i].durationMs * 1000 = AskedSubparts[subpart]

\* ttfb of 50000 and loadDelay of 20000 gave TTFB 50 and Load Delay 20.
FiftyAndTwentyMilliseconds ==
  /\ applied.fn = "getLCPBreakdownData"
  /\ returned.defined
  /\ DOMAIN AskedSubparts = {"ttfb", "loadDelay"}
  /\ AskedSubparts["ttfb"] = 50000
  /\ AskedSubparts["loadDelay"] = 20000
  /\ returned.value.phases
       = <<[name |-> "TTFB", durationMs |-> 50], [name |-> "Load Delay", durationMs |-> 20]>>

\* C17: when there is an LCPBreakdown insight, a breakdown is returned, with
\* the lcpMs of the insight, or 0 when the insight has none.
LcpMsDefaultsToZero ==
  (applied.fn = "getLCPBreakdownData" /\ AskedLcpInsights # {})
    => /\ returned.defined
       /\ returned.value.lcpMs
            = (IF AskedLcpInsight.lcpMs.defined THEN AskedLcpInsight.lcpMs.value ELSE 0)

\* An insight without lcpMs, with subparts, gave a breakdown with lcpMs 0
\* and its phases.
LcpMsZeroWithPhases ==
  /\ applied.fn = "getLCPBreakdownData"
  /\ AskedLcpInsights # {}
  /\ ~AskedLcpInsight.lcpMs.defined
  /\ returned.defined
  /\ returned.value.lcpMs = 0
  /\ Len(returned.value.phases) = 4

\* The places, in insertion order, of the insight sets whose LCPBreakdown
\* insight has an lcpMs above 0.
PositiveLcpPlaces(r) ==
  IF ~r.insights.defined
    THEN {}
    ELSE {i \in DOMAIN r.insights.value :
            LET model == r.insights.value[i].model
            IN  /\ "LCPBreakdown" \in DOMAIN model
                /\ model.LCPBreakdown.defined
                /\ model.LCPBreakdown.value.lcpMs.defined
                /\ model.LCPBreakdown.value.lcpMs.value > 0}

\* C18: the set whose LCP breakdown is shown is the last one, in insertion
\* order, that has an LCPBreakdown insight with lcpMs above 0; when there is
\* none, or no insights, the LCP data is null.
LastPositiveLcpIsChosen ==
  applied.fn = "getLCPDataWithScreenshot"
    => LET places == PositiveLcpPlaces(applied.result)
       IN  IF places = {}
             THEN returned = [finalInsightSetId |-> None, lcpData |-> None]
             ELSE LET last == CHOOSE i \in places : \A k \in places : k <= i
                      set == applied.result.insights.value[last]
                  IN  /\ returned.finalInsightSetId = Some(set.id)
                      /\ returned.lcpData.defined
                      /\ returned.lcpData.value.lcpMs = set.model.LCPBreakdown.value.lcpMs.value

\* Of three sets with lcpMs 120, 120 and 0, the second was chosen.
SecondOfThreeChosen ==
  /\ applied.fn = "getLCPDataWithScreenshot"
  /\ PositiveLcpPlaces(applied.result) = {1, 2}
  /\ Len(applied.result.insights.value) = 3
  /\ "LCPBreakdown" \in DOMAIN applied.result.insights.value[3].model
  /\ returned.finalInsightSetId = Some("NAVIGATION_1")

\* The clusters of the result a layout shift function was applied to.
AppliedClusters == applied.result.parsedTrace.data.LayoutShifts.clusters

\* The number of events of the clusters before the c-th.
RECURSIVE EventsBefore(_, _)
EventsBefore(clusters, c) ==
  IF c <= 1 THEN 0 ELSE EventsBefore(clusters, c - 1) + Len(clusters[c - 1].events)

\* C19: getLayoutShifts has one entry per shift event of every cluster, in
\* cluster order and in event order within a cluster, each with the ts of
\* its event; an empty cluster adds nothing.
ShiftsAreFlattened ==
  applied.fn = "getLayoutShifts"
    => /\ Len(returned) = EventsBefore(AppliedClusters, Len(AppliedClusters) + 1)
       /\ \A c \in DOMAIN AppliedClusters :
            \A i \in DOMAIN AppliedClusters[c].events :
              returned[EventsBefore(AppliedClusters, c) + i].ts
                = AppliedClusters[c].events[i].ts

\* Two clusters of two events each gave four entries, in order.
FourShiftsOfTwoClusters ==
  /\ applied.fn = "getLayoutShifts"
  /\ Len(AppliedClusters) = 2
  /\ \A c \in DOMAIN AppliedClusters : Len(AppliedClusters[c].events) = 2
  /\ [i \in DOMAIN returned |-> returned[i].ts] = <<1234, 5678, 5678, 1234>>

\* The events of the applied result, flattened, with their images as the
\* source reads them.
RECURSIVE AppliedEvents(_)
AppliedEvents(c) ==
  IF c > Len(AppliedClusters)
    THEN <<>>
    ELSE AppliedClusters[c].events \o AppliedEvents(c + 1)

\* C20: getLayoutShiftImages returns the images of the first entry, in
\* getLayoutShifts order, whose ts is the timestamp, and null when there is
\* none.
FirstMatchIsReturned ==
  applied.fn = "getLayoutShiftImages"
    => LET events == AppliedEvents(1)
           matches == {i \in DOMAIN events : events[i].ts = applied.timestamp}
       IN  IF matches = {}
             THEN returned = None
             ELSE LET first == CHOOSE i \in matches : \A k \in matches : i <= k
                  IN  returned = Some(ImagesOf(events[first]))

\* Two events share the timestamp, with different images, and the images of
\* the first were returned.
FirstOfTwoWithSameTs ==
  /\ applied.fn = "getLayoutShiftImages"
  /\ LET events == AppliedEvents(1)
         matches == {i \in DOMAIN events : events[i].ts = applied.timestamp}
     IN  /\ Cardinality(matches) = 2
         /\ \E i, k \in matches :
              /\ i < k
              /\ ImagesOf(events[i]) # ImagesOf(events[k])
              /\ returned = Some(ImagesOf(events[i]))

\* The paths of the nodes of a tree of up to three levels: the root is
\* <<>>, its i-th child <<i>>, that child's k-th child <<i, k>>.
PathsOf(root) ==
  {<<>>}
    \cup {<<i>> : i \in DOMAIN root.children}
    \cup UNION {{<<i, k>> : k \in DOMAIN root.children[i].children} :
                 i \in DOMAIN root.children}

\* The node of a tree at a path.
NodeAt(root, path) ==
  CASE Len(path) = 0 -> root
    [] Len(path) = 1 -> root.children[path[1]]
    [] OTHER -> root.children[path[1]].children[path[2]]

\* Pre-order: a node comes before its descendants, and the subtree of a
\* child before the subtrees of the children listed after it.
PreOrderBefore(p, q) ==
  /\ p # q
  /\ \/ Len(p) < Len(q) /\ SubSeq(q, 1, Len(p)) = p
     \/ \E i \in 1..Len(p) :
          /\ i <= Len(q)
          /\ SubSeq(p, 1, i - 1) = SubSeq(q, 1, i - 1)
          /\ p[i] < q[i]

\* The paths of the nodes of the searched tree that carry the searched id.
MatchingPaths ==
  {p \in PathsOf(applied.node) : NodeAt(applied.node, p).backendNodeId = applied.backendNodeId}

\* C21: findAXNode returns the first node in pre-order whose backendNodeId is
\* the searched id, and null when no node of the tree has it; it visits no
\* node twice, visits the nodes in pre-order, and visits none after the
\* first match: the visited nodes are exactly those up to and including the
\* first match, or the whole tree when there is no match.
FirstInPreOrderIsFound ==
  applied.fn = "findAXNode" =>
    LET visited == returned.visited
    IN  /\ \A i, k \in DOMAIN visited : i < k => PreOrderBefore(visited[i], visited[k])
        /\ IF MatchingPaths = {}
             THEN /\ returned.found = None
                  /\ {visited[i] : i \in DOMAIN visited} = PathsOf(applied.node)
             ELSE LET first == CHOOSE p \in MatchingPaths :
                                 \A q \in MatchingPaths \ {p} : PreOrderBefore(p, q)
                  IN  /\ returned.found = Some(NodeAt(applied.node, first))
                      /\ {visited[i] : i \in DOMAIN visited}
                           = {p \in PathsOf(applied.node) : p = first \/ PreOrderBefore(p, first)}

\* A search for id 4 in a tree whose root has id 1, whose first child has id
\* 1 and a child with id 4, and whose second child has id 4 itself: the
\* grandchild is found and the second child is never visited.
GrandchildFoundBeforeSecondChild ==
  /\ applied.fn = "findAXNode"
  /\ applied.backendNodeId = 4
  /\ applied.node = AXNode(1, <<AXNode(1, <<AXNode(4, <<>>)>>), AXNode(4, <<>>)>>)
  /\ returned.found = Some(AXNode(4, <<>>))
  /\ returned.visited = <<<<>>, <<1>>, <<1, 1>>>>

\* The page did not give a screenshot of the LCP element: the snapshot
\* threw or was null, the node was not in it, there was no element handle,
\* or the screenshot threw.
NoScreenshotFromPage ==
  \/ applied.page.snapshot = Rejected
  \/ ~applied.page.snapshot.defined
  \/ ~findAXNode(applied.page.snapshot.value, 4).defined
  \/ applied.page.elementHandle # "handle"
  \/ applied.page.screenshot = "throws"

\* C22: when correlating or screenshotting the LCP element fails (the
\* snapshot throws, the node is not found, there is no element handle, the
\* screenshot or the dispose throws), getLCPDataWithScreenshot still returns
\* the lcpMs, backendNodeId and phases of getLCPBreakdownData for the chosen
\* set, and the screenshot field is absent.
ScreenshotFailureKeepsLcpData ==
  (/\ applied.fn = "getLCPDataWithScreenshot on a page"
   /\ getLCPData(applied.result).defined
   /\ NoScreenshotFromPage \/ applied.page.dispose = "throws")
    => LET data == getLCPBreakdownData(applied.result, "NAVIGATION_0").value
       IN  /\ returned.defined
           /\ returned.value.lcpMs = data.lcpMs
           /\ returned.value.backendNodeId = data.backendNodeId
           /\ returned.value.phases = data.phases
           /\ ~returned.value.screenshot.defined

\* C22, amended: whatever fails while correlating or screenshotting the LCP
\* element, getLCPDataWithScreenshot returns the lcpMs, backendNodeId and
\* phases of getLCPBreakdownData for the chosen set; the screenshot field is
\* absent exactly when there is no DOM node to look for or the page gave no
\* screenshot, and a screenshot already taken is kept when only the dispose
\* throws.
ScreenshotFailureLosesOnlyScreenshot ==
  (/\ applied.fn = "getLCPDataWithScreenshot on a page"
   /\ getLCPData(applied.result).defined)
    => LET data == getLCPBreakdownData(applied.result, "NAVIGATION_0").value
       IN  /\ returned.defined
           /\ returned.value.lcpMs = data.lcpMs
           /\ returned.value.backendNodeId = data.backendNodeId
           /\ returned.value.phases = data.phases
           /\ returned.value.screenshot.defined
                <=> /\ data.backendNodeId \notin {None, Some(0)}
                    /\ ~NoScreenshotFromPage

\* The dispose threw after the screenshot of node 4 was taken: the data of
\* the set, with two phases, is returned with the screenshot.
DisposeFailureKeepsScreenshot ==
  /\ applied.fn = "getLCPDataWithScreenshot on a page"
  /\ applied.page.dispose = "throws"
  /\ ~NoScreenshotFromPage
  /\ returned.defined
  /\ returned.value.lcpMs = 120
  /\ returned.value.backendNodeId = Some(4)
  /\ Len(returned.value.phases) = 2
  /\ returned.value.screenshot = Some(ScreenshotBase64)

\* The awaits of getLCPDataWithScreenshot.
LcpPcs == {"await_snapshot", "await_elementHandle", "await_screenshot", "await_dispose"}

\* The step is one of a performance_analyze_insight or
\* performance_show_lcp_breakdown handler: it enters the handler or resumes
\* it after an await.
QueryStep(h) ==
  \/ Enters(h, "performance_analyze_insight")
  \/ Enters(h, "performance_show_lcp_breakdown")
  \/ pc[h] \in LcpPcs /\ pc'[h] # pc[h]

\* C23: no step of a performance_analyze_insight or
\* performance_show_lcp_breakdown handler, with the lookups and derivations
\* it calls (getInsightOutput, getLCPBreakdownData,
\* getLCPDataWithScreenshot), changes the history of stored results, any
\* result in it, or the recording flag.
QueriesAreReadOnly ==
  [][\A h \in Calls :
       QueryStep(h) => /\ recordedTraces' = recordedTraces
                       /\ isRunningPerformanceTrace' = isRunningPerformanceTrace]_vars

\* An insight query and an LCP breakdown with a screenshot have both been
\* answered from the one stored recording, which is still the history.
TwoQueriesOnOneRecording ==
  /\ Len(recordedTraces) = 1
  /\ recordedTraces[1].insights = Some(SampleInsightSets)
  /\ \E g, k \in Calls :
       /\ request[g].tool = "performance_analyze_insight"
       /\ response[g] = <<LineInsightOutput, LineLcpHint>>
       /\ request[k].tool = "performance_show_lcp_breakdown"
       /\ pc[k] = "done"
       /\ response[k] = <<LineLcpOpened, LineJsonFence, LineLcpDataWithScreenshot, LineFence>>

\* The lines of a response.
LinesOf(lines) == {lines[i] : i \in DOMAIN lines}

\* The stop sequence of h has a file to save to and a buffer to save.
SaveIsDue(req, buf) == req.filePath # "none" /\ buf \notin {NoBuffer, "undefined"}

\* C24: within one stop sequence, page.tracing.stop comes first; the save
\* follows it exactly when a filePath is given and a buffer was returned;
\* parseRawTraceBuffer is called after the save, or right after the stop
\* when no save is due; the result is stored and summarised only when the
\* parse has settled.  A parse error is reported after the 'saved to' line
\* of a save that was due: the save is neither skipped nor undone.
StopStepsInOrder ==
  [][\A h \in Calls :
       /\ (pc[h] # pc'[h] /\ pc'[h] \in {"await_gzip", "await_saveFile"} /\ pc[h] # "await_gzip")
            => /\ pc[h] = "await_tracing_stop"
               /\ SaveIsDue(request'[h], traceEventsBuffer'[h])
       /\ (engineCalls[h] = <<>> /\ engineCalls'[h] # <<>>)
            => \/ /\ pc[h] = "await_tracing_stop"
                  /\ ~SaveIsDue(request'[h], traceEventsBuffer'[h])
                  /\ response'[h] = <<>>
               \/ /\ pc[h] = "await_saveFile"
                  /\ SaveIsDue(request[h], traceEventsBuffer[h])
                  /\ response'[h] = <<LineSaved>>
       /\ (pc[h] # "done" /\ pc'[h] = "done"
             /\ LinesOf(response'[h]) \cap {LineStopped, LineSummary, LineParseError} # {})
            => pc[h] = "await_parseRawTraceBuffer"
       /\ (pc[h] # "done" /\ LineParseError \in LinesOf(response'[h]))
            => response'[h] =
                 (IF SaveIsDue(request[h], traceEventsBuffer[h]) THEN <<LineSaved>> ELSE <<>>)
                   \o <<LineStopped, LineParseError, result[h].error>>]_vars

\* A stop with a filePath whose buffer the engine gave no parsed trace for:
\* the parse error is reported after the 'saved to' line.
ParseErrorAfterSave ==
  \E h \in Calls :
    /\ pc[h] = "done"
    /\ response[h] = <<LineSaved, LineStopped, LineParseError, ErrNoParsedTrace>>

\* Tool call h is a performance_start_trace that was accepted.
IsAcceptedStart(h) ==
  /\ request[h].tool = "performance_start_trace"
  /\ pc[h] # "idle"
  /\ response[h] # <<LineAlreadyRunning>>

\* The accepted start entered last: tool calls are entered in the order of
\* their indices.
IsLatestAcceptedStart(h) ==
  /\ IsAcceptedStart(h)
  /\ \A g \in Calls : g > h => ~IsAcceptedStart(g)

\* C25: an accepted start with autoStop runs the stop sequence once the
\* timer has fired, once, and returns from it with the flag false; an
\* accepted start without autoStop runs no stop sequence and returns with
\* the 'is being recorded' line and the flag true, and while it is the
\* latest accepted start the flag is cleared only by the stop sequence of a
\* performance_stop_trace.
AutoStopIsCallerSelected ==
  [][\A h \in Calls :
       /\ (pc[h] = "await_timer" /\ pc'[h] # pc[h]) => pc'[h] = "await_tracing_stop"
       /\ (request[h].tool = "performance_start_trace" /\ pc'[h] = "await_tracing_stop")
            => pc[h] \in {"await_timer", "await_tracing_stop"}
       /\ (request[h].tool = "performance_start_trace"
             /\ pc[h] \in StopSequencePcs /\ pc'[h] \notin StopSequencePcs)
            => (pc'[h] = "done" /\ ~isRunningPerformanceTrace')
       /\ (pc[h] \in {"await_tracing_start", "await_goto_url"} /\ pc'[h] = "done")
            => /\ response'[h] = <<LineBeingRecorded>>
               /\ isRunningPerformanceTrace'
       /\ (/\ IsLatestAcceptedStart(h)
           /\ pc[h] = "done"
           /\ response[h] = <<LineBeingRecorded>>
           /\ isRunningPerformanceTrace
           /\ ~isRunningPerformanceTrace')
            => \E g \in Calls :
                 /\ request[g].tool = "performance_stop_trace"
                 /\ pc[g] \in StopSequencePcs
                 /\ pc'[g] = "done"]_vars

\* C26: the timer of an accepted autoStop start cannot be cancelled: while
\* the handler waits for it, no step of any handler moves it anywhere but
\* into its stop sequence, and whatever else happens meanwhile (an explicit
\* stop beginning or completing included) it fires and the stop sequence of
\* that handler is entered.
TimerAlwaysFires ==
  /\ [][\A h \in Calls :
          (pc[h] = "await_timer" /\ pc'[h] # pc[h]) => pc'[h] = "await_tracing_stop"]_vars
  /\ \A h \in Calls : (pc[h] = "await_timer") ~> (pc[h] = "await_tracing_stop")

\* An explicit stop has run its whole stop sequence while the start handler
\* waited for its timer, and the timer has fired all the same: the start
\* handler is in its own stop sequence.
TimerFiredAfterExplicitStop ==
  \E h, g \in Calls :
    /\ h < g
    /\ request[h].tool = "performance_start_trace"
    /\ request[h].autoStop = Some(TRUE)
    /\ pc[h] = "await_tracing_stop"
    /\ request[g].tool = "performance_stop_trace"
    /\ pc[g] = "done"
    /\ response[g] # <<>>
    /\ ~isRunningPerformanceTrace

\* The awaits of the start handler before its timer.
StartPcs == {"await_goto_blank", "await_tracing_start", "await_goto_url"}

\* C27: an accepted start sets the flag and captures the page URL in the
\* step it is entered in.  With reload it then awaits, in this order,
\* page.goto('about:blank'), page.tracing.start and page.goto of the captured
\* URL; without reload it calls page.tracing.start in the entering step and
\* no step of it changes the page URL.  page.tracing.start is called and
\* completes only in a handler that has set the flag, and after the blank
\* navigation when reloading.
StartStepsInOrder ==
  [][/\ \A h \in Calls :
          /\ (Enters(h, "performance_start_trace") /\ ~isRunningPerformanceTrace)
               => /\ isRunningPerformanceTrace'
                  /\ pageUrlForTracing'[h] = pageUrl
                  /\ pageUrl' = pageUrl
                  /\ browserTracing' = browserTracing
                  /\ pc'[h] = (IF request'[h].reload = Some(TRUE)
                                 THEN "await_goto_blank"
                                 ELSE "await_tracing_start")
          /\ (pc[h] = "await_goto_blank" /\ pc'[h] # pc[h])
               => /\ request[h].reload = Some(TRUE)
                  /\ browserTracing' = browserTracing
                  /\ \/ pc'[h] = "thrown" /\ pageUrl' = pageUrl
                     \/ pc'[h] = "await_tracing_start" /\ pageUrl' = "about:blank"
          /\ (pc[h] = "await_tracing_start" /\ pc'[h] # pc[h])
               => /\ pageUrl' = pageUrl
                  /\ \/ pc'[h] = "thrown" /\ browserTracing' = browserTracing
                     \/ /\ browserTracing'
                        /\ IF request[h].reload = Some(TRUE)
                             THEN pc'[h] = "await_goto_url"
                             ELSE pc'[h] \in {"await_timer", "done"}
          /\ (pc[h] = "await_goto_url" /\ pc'[h] # pc[h])
               => /\ request[h].reload = Some(TRUE)
                  /\ browserTracing' = browserTracing
                  /\ \/ pc'[h] = "thrown" /\ pageUrl' = pageUrl
                     \/ pc'[h] \in {"await_timer", "done"} /\ pageUrl' = pageUrlForTracing[h]
          /\ (pc[h] \in StartPcs /\ pc'[h] \in StartPcs)
               => pageUrlForTracing'[h] = pageUrlForTracing[h]
          /\ (pc'[h] \in StartPcs /\ pc[h] # pc'[h])
               => pc[h] = (CASE pc'[h] = "await_goto_blank" -> "idle"
                             [] pc'[h] = "await_tracing_start" ->
                                  IF request'[h].reload = Some(TRUE)
                                    THEN "await_goto_blank"
                                    ELSE "idle"
                             [] pc'[h] = "await_goto_url" -> "await_tracing_start")
     /\ (browserTracing' /\ ~browserTracing)
          => \E h \in Calls : pc[h] = "await_tracing_start" /\ pc'[h] # pc[h]
     /\ pageUrl' # pageUrl
          => \E h \in Calls :
               /\ pc[h] \in {"await_goto_blank", "await_goto_url"}
               /\ pc'[h] # pc[h]]_vars

\* A start with reload and autoStop has gone through both navigations and
\* waits for its timer: the page is recording and back on the URL it showed
\* when the handler was entered.
ReloadedAndRecording ==
  \E h \in Calls :
    /\ request[h].reload = Some(TRUE)
    /\ pc[h] = "await_timer"
    /\ browserTracing
    /\ isRunningPerformanceTrace
    /\ pageUrlForTracing[h] = "https://example.test/"
    /\ pageUrl = pageUrlForTracing[h]

\* C28: performance_analyze_insight and performance_show_lcp_breakdown
\* answer from the last element of the history, whatever was recorded or
\* failed to parse before the call: without insights in that recording the
\* answers are 'No Performance insights...' and 'No LCP data found...', with
\* them the insight lookup goes on to the set and the name and the LCP
\* breakdown is the one of that recording's last set with a positive lcpMs.
\* With an empty history both append 'No recorded traces found.' and return
\* without any lookup.
QueriesReadLastRecording ==
  [][\A h \in Calls :
       /\ Enters(h, "performance_analyze_insight")
            => IF recordedTraces = <<>>
                 THEN response'[h] = <<LineNoRecordedTraces>> /\ pc'[h] = "done"
                 ELSE LET last == recordedTraces[Len(recordedTraces)]
                      IN  IF last.insights.defined
                            THEN response'[h] \notin {<<LineNoRecordedTraces>>, <<ErrNoInsights>>}
                            ELSE response'[h] = <<ErrNoInsights>> /\ pc'[h] = "done"
       /\ Enters(h, "performance_show_lcp_breakdown")
            => IF recordedTraces = <<>>
                 THEN /\ response'[h] = <<LineNoRecordedTraces>>
                      /\ pc'[h] = "done"
                      /\ lcpData'[h] = None
                 ELSE LET last == recordedTraces[Len(recordedTraces)]
                      IN  IF last.insights.defined
                            THEN /\ pc'[h] = "await_snapshot"
                                 /\ lcpData'[h] =
                                      getLCPBreakdownData(
                                        last, last.insights.value[Len(last.insights.value)].id)
                            ELSE response'[h] = <<LineNoLcpData>> /\ pc'[h] = "done"]_vars

\* The first recording has insights and the second has none: the insight
\* query made after both was answered from the second.
SecondRecordingWasQueried ==
  /\ Len(recordedTraces) = 2
  /\ recordedTraces[1].insights.defined
  /\ ~recordedTraces[2].insights.defined
  /\ \E h \in Calls :
       /\ request[h].tool = "performance_analyze_insight"
       /\ pc[h] = "done"
       /\ response[h] = <<ErrNoInsights>>

\* The score and the images that an event asks of its entry, read from the
\* event itself.
ShiftScoreOf(event) ==
  IF /\ event.args.data.defined
     /\ "weighted_score_delta" \in DOMAIN event.args.data.value
     /\ event.args.data.value.weighted_score_delta.defined
    THEN event.args.data.value.weighted_score_delta.value
    ELSE 0

ArtifactImage(artifact) ==
  IF "snapshot" \in DOMAIN artifact.args
    THEN artifact.args.snapshot
    ELSE artifact.args.dataUri

SlotFollowsArtifact(slot, artifact) ==
  /\ slot.defined <=> artifact.defined
  /\ artifact.defined => slot = ArtifactImage(artifact.value)

\* C29: every entry of getLayoutShifts has the score of its event's
\* weighted_score_delta, or 0 when the event has no args.data or no such
\* value; its images.before is set exactly when the event has a before
\* screenshot artifact and is then the artifact's snapshot when it has one
\* and its dataUri otherwise; the same holds of images.after, whatever the
\* other slot is.
ShiftEntriesFollowEvents ==
  (applied.fn = "getLayoutShifts") =>
    LET events == AppliedEvents(1)
    IN /\ Len(returned) = Len(events)
       /\ \A i \in 1..Len(events) :
            /\ returned[i].score = ShiftScoreOf(events[i])
            /\ SlotFollowsArtifact(returned[i].images.before, events[i].screenshots.before)
            /\ SlotFollowsArtifact(returned[i].images.after, events[i].screenshots.after)

\* An event without args.data, with a data URI before and an inline
\* snapshot after, gave an entry of score 0 with both images.
MixedShiftEntry ==
  /\ applied.fn = "getLayoutShifts"
  /\ Len(AppliedEvents(1)) = 1
  /\ ~AppliedEvents(1)[1].args.data.defined
  /\ returned = <<[ts |-> 1234, score |-> 0,
                   images |-> [before |-> Some("data:before"), after |-> Some("after.png")]]>>

\* The lines a step appended to the response of tool call h.
AppendedLines(h) == SubSeq(response'[h], Len(response[h]) + 1, Len(response'[h]))

\* The three reports of performance.ts 335-353.
IsSuccessReport(lines) == lines = <<LineStopped, LineSummary>>

IsParseErrorReport(lines) ==
  /\ Len(lines) = 3
  /\ lines[1] = LineStopped
  /\ lines[2] = LineParseError

IsExceptionReport(lines) ==
  /\ Len(lines) \in {2, 3}
  /\ SubSeq(lines, Len(lines) - 1, Len(lines)) = <<LineResponseError, LineErrorText>>
  /\ Len(lines) = 3 => lines[1] = LineStopped

\* C30: a stop sequence that ends has reported exactly one of three
\* outcomes: after a successful parse, the 'stopped' line followed by the
\* summary; after a parse that returned an error value, the 'stopped' line
\* followed by the 'unexpected error parsing' line and the error text;
\* after an exception in any step, the 'error occurred generating the
\* response' line followed by the exception text.  In each case the
\* handler returns: the exception is not rethrown.
StopReportsOneOutcome ==
  [][\A h \in Calls :
       (pc[h] \in StopSequencePcs /\ pc'[h] \notin StopSequencePcs)
         => LET lines == AppendedLines(h)
            IN /\ pc'[h] = "done"
               /\ \/ /\ IsSuccessReport(lines)
                     /\ pc[h] = "await_parseRawTraceBuffer"
                     /\ result[h] # Rejected
                     /\ traceResultIsSuccess(result[h])
                     /\ ~IsParseErrorReport(lines) /\ ~IsExceptionReport(lines)
                  \/ /\ IsParseErrorReport(lines)
                     /\ pc[h] = "await_parseRawTraceBuffer"
                     /\ result[h] # Rejected
                     /\ ~traceResultIsSuccess(result[h])
                     /\ lines[3] = result[h].error
                     /\ ~IsSuccessReport(lines) /\ ~IsExceptionReport(lines)
                  \/ /\ IsExceptionReport(lines)
                     /\ ~IsSuccessReport(lines) /\ ~IsParseErrorReport(lines)
               /\ LinesOf(response[h]) \cap
                    {LineStopped, LineSummary, LineParseError, LineResponseError} = {}]_vars

\* Three stop sequences have ended, one with each of the three reports.
ThreeStopOutcomes ==
  \E f, g, h \in Calls :
    /\ pc[f] = "done" /\ pc[g] = "done" /\ pc[h] = "done"
    /\ response[f] = <<LineStopped, LineSummary>>
    /\ response[g] = <<LineStopped, LineParseError, ErrNoParsedTrace>>
    /\ response[h] = <<LineResponseError, LineErrorText>>

\* C31: the recording flag covers the browser recording: in every reachable
\* state, while the page is recording (page.tracing.start has completed and
\* no page.tracing.stop has run since) the recording flag is true, so no
\* start is accepted while the browser is still tracing.
FlagCoversBrowserRecording ==
  /\ browserTracing => isRunningPerformanceTrace
  /\ \A h \in Calls :
       (browserTracing /\ request[h].tool = "performance_start_trace")
         => pc[h] \notin {"await_goto_blank", "await_tracing_start"}

\* C32: each recording is stopped at most once: page.tracing.stop() is
\* called at most once per completed page.tracing.start() (never before the
\* first one has completed, at most once since the latest), and the stop
\* sequence that the autoStop timer of a start enters never calls it while
\* the page holds a recording begun by a later start.
RecordingStoppedAtMostOnce ==
  [][/\ tracingSession'.stopCalls <= (IF tracingSession'.startedBy = 0 THEN 0 ELSE 1)
     /\ \A h \in Calls :
          (pc[h] = "await_timer" /\ pc'[h] = "await_tracing_stop" /\ browserTracing)
            => tracingSession.startedBy = h]_vars

\* The networkConditions names that applyEmulation is to act on.
KnownNetworkNames == {"No emulation", "Offline"} \cup DOMAIN PredefinedNetworkConditions

\* The context of e holds, for each setting, what the page was last given by
\* a call that returned: null for no call, for null conditions ('No
\* emulation') and for a cleared geolocation (the page is then given the
\* origin).
ContextMirrorsPage(e) ==
  /\ e.context.networkConditions =
       (IF e.page.networkConditions \in {Undefined, None}
          THEN None
        ELSE IF e.page.networkConditions = PageCall([networkConditions |-> Some("Offline")],
                                                    "await_emulateNetworkConditions").argument
          THEN Some("Offline")
        ELSE e.page.networkConditions)
  /\ e.context.cpuThrottlingRate =
       (IF e.page.cpuThrottlingRate = Undefined THEN None ELSE e.page.cpuThrottlingRate)
  /\ \/ e.context.geolocation = e.page.geolocation
     \/ /\ e.context.geolocation = None
        /\ e.page.geolocation \in {Undefined, Some([latitude |-> 0, longitude |-> 0])}

\* C33: the emulation state of the context mirrors what was applied to the
\* page: after any emulate_set_parameters calls the context's network
\* conditions, CPU throttling rate and geolocation are the last values
\* applied to the page by a call that returned ('No emulation' and a null
\* geolocation stored as null); a context value changes only in the step in
\* which the page call of its setting returns, so a page call that throws
\* leaves the context unchanged; and for a networkConditions name that is
\* neither 'No emulation', 'Offline' nor a predefined condition no page call
\* is made and neither the page nor the context changes.
EmulationStateMirrorsPage ==
  [][/\ ContextMirrorsPage(emulation')
     /\ \A h \in 1..MaxEmulations :
          /\ emulation'.pc[h] = "await_emulateNetworkConditions"
               => emulation'.params[h].value.networkConditions.value \in KnownNetworkNames
          /\ (emulation.pc[h] # "thrown" /\ emulation'.pc[h] = "thrown")
               => /\ emulation'.context = emulation.context
                  /\ emulation'.page = emulation.page
     /\ (emulation'.context # emulation.context \/ emulation'.page # emulation.page)
          => \E h \in 1..MaxEmulations :
               /\ emulation.pc[h] \notin {"idle", "done", "thrown"}
               /\ emulation'.pc[h] \notin {emulation.pc[h], "thrown"}
               /\ LET call == PageCall(emulation.params[h].value, emulation.pc[h])
                  IN  /\ emulation'.page = [emulation.page EXCEPT ![call.setting] = call.argument]
                      /\ emulation'.context =
                           [emulation.context EXCEPT ![call.setting] = call.stored]]_vars
====
